---- MODULE Spec2Model ----
(***************************************************************************)
(* Order / subscription payment workflow of the agro mini-app bot.         *)
(*                                                                         *)
(* The Ledger Store is the SQLite database (tables orders, order_items,    *)
(* subscriptions, users), the Session Store is the Redis-backed            *)
(* ChatRepository, the Notifier is the Telegram bot.  Every HTTP / bot     *)
(* handler of internal/handler/handler.go is one action; the outcome of    *)
(* each external call that can fail (a database statement, a session read  *)
(* or write, a message send) is an input of the action.                    *)
(*                                                                         *)
(* Quantities are float64 in the program.  Here a quantity is a number of  *)
(* halves (field qty2 = 2 * qty): halves and the small prices used are     *)
(* exact in float64, so int64(qty * float64(price)) is (qty2 * price) \div *)
(* 2 for every input the model draws.                                      *)
(***************************************************************************)
EXTENDS Integers, Sequences, FiniteSets, TLC

VARIABLES orders, order_items, subscriptions, users, sessions, now, lastOp, proc

vars == <<orders, order_items, subscriptions, users, sessions, now, lastOp, proc>>

(* ------------------------------ bounds --------------------------------- *)
MaxOrders == 1
MaxSubs == 2

(* ------------------------- program constants --------------------------- *)
paymentKaspiLink == "kaspi_link"
paymentCash == "cash"
stateStart == "Start"
stateWaitingPayment == "AwaitingPayment"
DeliveryFlatRate == 1000
SubscriptionFee == 3000

(* ------------------------------ inputs --------------------------------- *)
Buyers == {1, 2}
TgInputs == {"", " ", "1", "2"}
Phones == {"+7701"}
PayInputs == {"", "cash"}
DeliveryTypes == {"delivery", "DELIVERY", "pickup"}
Item(q2, p) == [product_id |-> 7, qty2 |-> q2, price |-> p]

(* 0.5 x 3 and 1.5 x 3 truncate; price 0 is allowed; qty 0 and price -1 are not *)
ItemLists ==
    { <<>>,
      <<Item(1, 3)>>, <<Item(1, 3), Item(1, 3)>>, <<Item(1, 3), Item(3, 3)>>, <<Item(4, 0)>>,
      <<Item(0, 3)>>, <<Item(1, 3), Item(0, 3)>>,
      <<Item(1, 0 - 1)>>, <<Item(1, 0 - 1), Item(1, 3)>> }

(* ------------------------- string conversions -------------------------- *)
TrimSpace(s) == IF s = " " THEN "" ELSE s

ToLower(s) == IF s = "DELIVERY" THEN "delivery" ELSE s

EqualFold(s, t) == ToLower(s) = ToLower(t)

Digits == <<"1", "2", "3", "4", "5", "6", "7", "8", "9">>

(* strconv.ParseInt(s, 10, 64) on the one-digit strings the model uses *)
ParseInt(s) ==
    IF s = "0" THEN [ok |-> TRUE, val |-> 0]
    ELSE IF \E d \in 1..Len(Digits) : Digits[d] = s
         THEN [ok |-> TRUE, val |-> CHOOSE d \in 1..Len(Digits) : Digits[d] = s]
         ELSE [ok |-> FALSE, val |-> 0]

(* fmt.Sprint / %d of an id *)
FormatInt(i) == IF i \in 1..Len(Digits) THEN Digits[i] ELSE "0"

(* ------------------------------ helpers -------------------------------- *)
RECURSIVE SumSeq(_)
SumSeq(s) == IF s = <<>> THEN 0 ELSE Head(s) + SumSeq(Tail(s))

Ev(step, ok) == [step |-> step, ok |-> ok]

NoResp == [order_id |-> 0, goods_total |-> 0, delivery_price |-> 0, total |-> 0]

(* int64(it.Qty * float64(it.Price)) *)
LineAmount(it) == (it.qty2 * it.price) \div 2

BadItem(it) == it.qty2 <= 0 \/ it.price < 0

(* ------------------------------- Init ---------------------------------- *)
NoUser == <<>>
NoSession == <<>>

(* ------------------------------ calendar ------------------------------- *)
(* a time.Time, to the day: the time of day is carried over unchanged by AddDate *)
Date(y, m, d) == [y |-> y, m |-> m, d |-> d]

IsLeap(y) == (y % 4 = 0 /\ y % 100 # 0) \/ y % 400 = 0

DaysIn(y, m) ==
    IF m = 2 THEN (IF IsLeap(y) THEN 29 ELSE 28)
    ELSE IF m \in {4, 6, 9, 11} THEN 30 ELSE 31

(* time.Date normalises an out-of-range month into the year ... *)
NormMonth(y, m, d) == Date(y + ((m - 1) \div 12), ((m - 1) % 12) + 1, d)

(* ... and an out-of-range day into the following months *)
RECURSIVE NormDay(_)
NormDay(t) ==
    IF t.d <= DaysIn(t.y, t.m) THEN t
    ELSE NormDay(NormMonth(t.y, t.m + 1, t.d - DaysIn(t.y, t.m)))

AddDateClamped(t, years, months, days) ==
    LET first == NormMonth(t.y + years, t.m + months, t.d + days)
    IN  IF first.d <= DaysIn(first.y, first.m) THEN first
        ELSE Date(first.y, first.m, DaysIn(first.y, first.m))

(* t.AddDate(years, months, days): the fields are added, then normalised as *)
(* time.Date does, so October 31 plus one month is December 1              *)
AddDate(t, years, months, days) ==
    NormDay(NormMonth(t.y + years, t.m + months, t.d + days))

(* the zero time.Time *)
ZeroDate == Date(1, 1, 1)

(* sql.NullTime *)
NullTime == [Valid |-> FALSE, Time |-> ZeroDate]

TimeAt(t) == [Valid |-> TRUE, Time |-> t]

UserRow(nick, phone, st, until) ==
    [nickname |-> nick, phone |-> phone, sub_status |-> st, sub_until |-> until]

Idle == [op |-> "idle", status |-> 0, events |-> <<>>]

(* the process at start: the root context is live, nothing is in flight *)
CallbackSlots == {1, 2}

(* a bot worker that is handling no update *)
NoCall ==
    [data |-> <<>>, todo |-> <<>>, done |-> FALSE, until |-> ZeroDate,
     state |-> NoSession, seen |-> NoSession, stale |-> FALSE, events |-> <<>>]

ProcInit ==
    [ctxDone |-> FALSE, closed |-> FALSE, exited |-> FALSE,
     sweeper |-> "start", due |-> FALSE, inflight |-> "none",
     cb |-> [i \in CallbackSlots |-> NoCall],
     base |-> [orders |-> <<>>, order_items |-> <<>>]]

InitAt(t) ==
    /\ orders = <<>>
    /\ order_items = <<>>
    /\ subscriptions = <<>>
    /\ users = [u \in {"1", "2"} |->
                  IF u = "2" THEN <<UserRow("alice", "", "inactive", NullTime)>> ELSE NoUser]
    /\ sessions = [b \in Buyers |-> NoSession]
    /\ now = t
    /\ lastOp = Idle
    /\ proc = ProcInit

Init == InitAt(Date(2024, 1, 31))

(* the first and the last days of every month of a common and a leap year *)
DecisionDates ==
    { t \in [y : {2023, 2024}, m : 1..12, d : {1, 28, 29, 30, 31}] : t.d <= DaysIn(t.y, t.m) }

(* the process may be started, and an approval handled, on any date *)
InitCalendar == \E t \in DecisionDates : InitAt(t)

(* --------------------------- Session Store ----------------------------- *)
UserState(state, method, contact, paid) ==
    [State |-> state, BroadCastType |-> method, Contact |-> contact, IsPaid |-> paid]

(* redisClient.GetUserState: the record, or nil when absent or on error *)
GetUserState(store, uid, ok) ==
    IF ok /\ uid \in DOMAIN store THEN store[uid] ELSE NoSession

SaveUserStateIfAbsent(store, uid, st, ok) ==
    IF ok /\ uid \in DOMAIN store /\ store[uid] = NoSession
    THEN [store EXCEPT ![uid] = <<st>>]
    ELSE store

(* redisClient.SaveUserState: overwrites the buyer's record unless the write fails *)
SaveUserState(store, uid, st, ok) ==
    IF ok /\ uid \in DOMAIN store THEN [store EXCEPT ![uid] = <<st>>] ELSE store

(* ------------------- order transaction (database/sql) ------------------ *)
Ledger(o, i) == [orders |-> o, order_items |-> i]

CommitDropsWrites(db, work) == db

(* tx.Commit: the transaction's writes become the stored rows *)
Commit(db, work) == work

RollbackKeepsWrites(db, work) == work

(* deferred tx.Rollback: the stored rows stay as they were before tx.Begin *)
Rollback(db, work) == db

ItemRow(orderID, it) ==
    [order_id |-> orderID, product_id |-> it.product_id, qty2 |-> it.qty2,
     price |-> it.price, amount |-> LineAmount(it)]

TxFaults(n) ==
    { [at |-> a, k |-> 1] : a \in {"none", "insert_order", "prepare", "commit"} }
        \cup { [at |-> "item", k |-> k] : k \in 1..n }

(* tx.Exec(INSERT INTO orders), tx.Prepare, stmt.Exec per item, tx.Commit; any *)
(* error returns from the handler and the deferred Rollback runs              *)
OrderTx(db, tgStr, total, items, fault) ==
    LET withOrder == Append(db.orders,
                            [user_id |-> tgStr, total_amount |-> total, status |-> "new"])
        orderID == Len(withOrder)
        nDone == IF fault.at = "item" THEN fault.k - 1 ELSE Len(items)
        withItems == db.order_items \o [i \in 1..nDone |-> ItemRow(orderID, items[i])]
        itemEvs == [i \in 1..nDone |-> Ev("insert_item", TRUE)]
    IN  CASE fault.at = "insert_order" ->
               [committed |-> FALSE, order_id |-> 0,
                db |-> Rollback(db, db),
                events |-> <<Ev("begin", TRUE), Ev("insert_order", FALSE), Ev("rollback", TRUE)>>]
          [] fault.at = "prepare" ->
               [committed |-> FALSE, order_id |-> orderID,
                db |-> Rollback(db, Ledger(withOrder, db.order_items)),
                events |-> <<Ev("begin", TRUE), Ev("insert_order", TRUE),
                             Ev("prepare", FALSE), Ev("rollback", TRUE)>>]
          [] fault.at = "item" ->
               [committed |-> FALSE, order_id |-> orderID,
                db |-> Rollback(db, Ledger(withOrder, withItems)),
                events |-> <<Ev("begin", TRUE), Ev("insert_order", TRUE), Ev("prepare", TRUE)>>
                           \o itemEvs \o <<Ev("insert_item", FALSE), Ev("rollback", TRUE)>>]
          [] fault.at = "commit" ->
               [committed |-> FALSE, order_id |-> orderID,
                db |-> Rollback(db, Ledger(withOrder, withItems)),
                events |-> <<Ev("begin", TRUE), Ev("insert_order", TRUE), Ev("prepare", TRUE)>>
                           \o itemEvs \o <<Ev("commit", FALSE), Ev("rollback", TRUE)>>]
          [] OTHER ->
               [committed |-> TRUE, order_id |-> orderID,
                db |-> Commit(db, Ledger(withOrder, withItems)),
                events |-> <<Ev("begin", TRUE), Ev("insert_order", TRUE), Ev("prepare", TRUE)>>
                           \o itemEvs \o <<Ev("commit", TRUE)>>]

AfterWriteAlways(written, evs) == evs

(* a failed ledger write answers "db error" and returns: nothing after it runs *)
AfterWrite(written, evs) == IF written THEN evs ELSE <<>>

(* ------------------------------ Notifier ------------------------------- *)
(* notifyAdmin: one send to cfg.AdminID from a goroutine; an error is only logged *)
notifyAdmin(ok) == <<Ev("notify_admin", ok)>>

ReceiptTotalGoodsOnly(items, total) ==
    LET good == SelectSeq(items, LAMBDA it : ~BadItem(it) /\ it.product_id # 0)
        calcTotal == SumSeq([i \in 1..Len(good) |-> LineAmount(good[i])])
    IN  IF calcTotal = 0 /\ total > 0 THEN total ELSE calcTotal

(* sendOrderReceiptToUser: the receipt total is recomputed from the items *)
ReceiptTotal(items, total) ==
    LET good == SelectSeq(items, LAMBDA it : ~BadItem(it))
        calcTotal == SumSeq([i \in 1..Len(good) |-> LineAmount(good[i])])
    IN  IF calcTotal = 0 /\ total > 0 THEN total ELSE calcTotal

sendOrderReceiptToUser(telegramID, ok) ==
    IF TrimSpace(telegramID) = "" \/ ~ParseInt(TrimSpace(telegramID)).ok
    THEN <<>>
    ELSE <<Ev("notify_buyer", ok)>>

(* --------------------------- order creation ---------------------------- *)
DeliveryItemHalfQty == [product_id |-> 0, qty2 |-> 1, price |-> DeliveryFlatRate]

(* the synthetic line: Qty 1, Price deliveryPrice *)
DeliveryItem == [product_id |-> 0, qty2 |-> 2, price |-> DeliveryFlatRate]

GoodsTotalSumFirst(items) ==
    SumSeq([i \in 1..Len(items) |-> items[i].qty2 * items[i].price]) \div 2

(* goodsTotal += int64(it.Qty * float64(it.Price)) *)
GoodsTotal(items) == SumSeq([i \in 1..Len(items) |-> LineAmount(items[i])])

OrderFaults(n) ==
    { [begin |-> FALSE, tx |-> [at |-> "none", k |-> 1], save |-> TRUE, admin |-> TRUE, buyer |-> TRUE] }
      \cup { [begin |-> TRUE, tx |-> t, save |-> TRUE, admin |-> TRUE, buyer |-> TRUE] :
                t \in TxFaults(n) \ {[at |-> "none", k |-> 1]} }
      \cup { [begin |-> TRUE, tx |-> [at |-> "none", k |-> 1], save |-> s, admin |-> a, buyer |-> b] :
                s \in BOOLEAN, a \in BOOLEAN, b \in BOOLEAN }

Rejected(op, req, code, evs) ==
    /\ lastOp' = [op |-> op, req |-> req, status |-> code, resp |-> NoResp,
                  receipt_total |-> 0, events |-> evs]
    /\ UNCHANGED <<orders, order_items, subscriptions, users, sessions, now, proc>>

(* POST /api/orders/confirm *)
handleConfirmOrder(req, f) ==
    LET tgStr == TrimSpace(req.telegram_id)
        payMethod == IF TrimSpace(req.payment_method) = "" THEN paymentKaspiLink
                     ELSE TrimSpace(req.payment_method)
        goodsTotal == GoodsTotal(req.items)
        isDelivery == EqualFold(req.delivery.Type, "delivery")
        deliveryPrice == IF isDelivery THEN DeliveryFlatRate ELSE 0
        items == IF isDelivery THEN Append(req.items, DeliveryItem) ELSE req.items
        total == goodsTotal + deliveryPrice
        tx == OrderTx(Ledger(orders, order_items), tgStr, total, items, f.tx)
        uid == ParseInt(tgStr)
        st == UserState(stateWaitingPayment, payMethod, req.delivery.Phone, FALSE)
        saved == IF uid.ok THEN SaveUserState(sessions, uid.val, st, f.save) ELSE sessions
        saveEv == IF uid.ok THEN <<Ev("session_save", f.save)>> ELSE <<>>
    IN  IF tgStr = "" \/ Len(req.items) = 0
        THEN Rejected("confirm", req, 400, <<>>)
        ELSE IF \E i \in 1..Len(req.items) : BadItem(req.items[i])
        THEN Rejected("confirm", req, 400, <<>>)
        ELSE IF ~f.begin
        THEN Rejected("confirm", req, 500, <<Ev("begin", FALSE)>>)
        ELSE /\ orders' = tx.db.orders
             /\ order_items' = tx.db.order_items
             /\ sessions' = IF tx.committed THEN saved ELSE sessions
             /\ lastOp' = [op |-> "confirm", req |-> req,
                           status |-> IF tx.committed THEN 200 ELSE 500,
                           resp |-> IF tx.committed
                                    THEN [order_id |-> tx.order_id, goods_total |-> goodsTotal,
                                          delivery_price |-> deliveryPrice, total |-> total]
                                    ELSE NoResp,
                           receipt_total |-> IF tx.committed THEN ReceiptTotal(items, total)
                                             ELSE 0,
                           events |-> tx.events
                                        \o AfterWrite(tx.committed,
                                                      saveEv \o notifyAdmin(f.admin)
                                                        \o sendOrderReceiptToUser(tgStr, f.buyer))]
             /\ UNCHANGED <<subscriptions, users, now, proc>>

(* POST /api/orders/create: the older endpoint, still registered *)
handleCreateOrder(req, f) ==
    LET tgStr == TrimSpace(req.telegram_id)
        total == GoodsTotal(req.items)
        tx == OrderTx(Ledger(orders, order_items), tgStr, total, req.items, f.tx)
    IN  IF tgStr = "" \/ Len(req.items) = 0
        THEN Rejected("create", req, 400, <<>>)
        ELSE IF ~f.begin
        THEN Rejected("create", req, 500, <<Ev("begin", FALSE)>>)
        ELSE IF \E i \in 1..Len(req.items) : BadItem(req.items[i])
        THEN Rejected("create", req, 400, <<Ev("begin", TRUE), Ev("rollback", TRUE)>>)
        ELSE /\ orders' = tx.db.orders
             /\ order_items' = tx.db.order_items
             /\ lastOp' = [op |-> "create", req |-> req,
                           status |-> IF tx.committed THEN 200 ELSE 500,
                           resp |-> IF tx.committed
                                    THEN [order_id |-> tx.order_id, goods_total |-> total,
                                          delivery_price |-> 0, total |-> total]
                                    ELSE NoResp,
                           receipt_total |-> IF tx.committed THEN ReceiptTotal(req.items, total)
                                             ELSE 0,
                           events |-> tx.events
                                        \o AfterWrite(tx.committed,
                                                      notifyAdmin(f.admin)
                                                        \o sendOrderReceiptToUser(tgStr, f.buyer))]
             /\ UNCHANGED <<subscriptions, users, sessions, now, proc>>

ConfirmRequests ==
    [telegram_id : TgInputs, items : ItemLists,
     delivery : [Type : DeliveryTypes, Phone : Phones], payment_method : PayInputs]

CreateRequests == [telegram_id : TgInputs, items : ItemLists]

NItems(req) ==
    Len(req.items) + (IF "delivery" \in DOMAIN req /\ EqualFold(req.delivery.Type, "delivery")
                      THEN 1 ELSE 0)

ConfirmOrder(Reqs) ==
    /\ lastOp = Idle
    /\ Len(orders) < MaxOrders
    /\ \E req \in Reqs : \E f \in OrderFaults(NItems(req)) : handleConfirmOrder(req, f)

CreateOrder(Reqs) ==
    /\ lastOp = Idle
    /\ Len(orders) < MaxOrders
    /\ \E req \in Reqs : \E f \in OrderFaults(NItems(req)) : handleCreateOrder(req, f)

(* the handler has returned: its response and log are out of the picture *)
Respond ==
    /\ lastOp # Idle
    /\ proc.inflight = "none"
    /\ lastOp' = Idle
    /\ UNCHANGED <<orders, order_items, subscriptions, users, sessions, now, proc>>

(* ------------------------ subscription request ------------------------- *)
SubRow(tg, phone) ==
    [user_id |-> tg, phone |-> phone, status |-> "pending", amount |-> SubscriptionFee,
     valid_until |-> NullTime]

UpsertUserReplace(tbl, tg, phone) ==
    IF tg \notin DOMAIN tbl THEN tbl
    ELSE [tbl EXCEPT ![tg] = <<UserRow("user", phone, "pending", NullTime)>>]

(* INSERT INTO users (nickname = COALESCE(existing, 'user')) ... ON CONFLICT(user_id) DO UPDATE SET phone, sub_status *)
UpsertUserPending(tbl, tg, phone) ==
    IF tg \notin DOMAIN tbl THEN tbl
    ELSE IF tbl[tg] = NoUser
    THEN [tbl EXCEPT ![tg] = <<UserRow("user", phone, "pending", NullTime)>>]
    ELSE [tbl EXCEPT ![tg] = <<[tbl[tg][1] EXCEPT !.phone = phone, !.sub_status = "pending"]>>]

InvoiceFaults ==
    { [upsert |-> FALSE, insert |-> TRUE, save |-> TRUE, admin |-> TRUE, buyer |-> TRUE],
      [upsert |-> TRUE, insert |-> FALSE, save |-> TRUE, admin |-> TRUE, buyer |-> TRUE] }
      \cup { [upsert |-> TRUE, insert |-> TRUE, save |-> s, admin |-> a, buyer |-> b] :
                s \in BOOLEAN, a \in BOOLEAN, b \in BOOLEAN }

SubDone(req, code, evs) ==
    lastOp' = [op |-> "invoice", req |-> req, status |-> code, events |-> evs]

(* POST /api/subscribe/request-invoice *)
handleRequestInvoice(req, f) ==
    LET tg == TrimSpace(req.telegram_id)
        phone == TrimSpace(req.phone)
        tgid == ParseInt(tg)
        st == UserState(stateWaitingPayment, paymentKaspiLink, phone, FALSE)
        saveEv == IF tgid.ok THEN <<Ev("session_save", f.save)>> ELSE <<>>
        buyerEv == IF tgid.ok THEN <<Ev("notify_buyer", f.buyer)>> ELSE <<>>
    IN  IF tg = "" \/ phone = ""
        THEN /\ SubDone(req, 400, <<>>)
             /\ UNCHANGED <<orders, order_items, subscriptions, users, sessions, now, proc>>
        ELSE IF ~f.upsert
        THEN /\ SubDone(req, 500, <<Ev("upsert_user", FALSE)>>)
             /\ UNCHANGED <<orders, order_items, subscriptions, users, sessions, now, proc>>
        ELSE /\ users' = UpsertUserPending(users, tg, phone)
             /\ subscriptions' = IF f.insert THEN Append(subscriptions, SubRow(tg, phone))
                                 ELSE subscriptions
             /\ sessions' = IF f.insert /\ tgid.ok
                            THEN SaveUserState(sessions, tgid.val, st, f.save)
                            ELSE sessions
             /\ SubDone(req, IF f.insert THEN 200 ELSE 500,
                        <<Ev("upsert_user", TRUE), Ev("insert_subscription", f.insert)>>
                          \o AfterWrite(f.insert, saveEv \o notifyAdmin(f.admin) \o buyerEv))
             /\ UNCHANGED <<orders, order_items, now, proc>>

InvoiceRequests == [telegram_id : TgInputs, phone : {"", " ", "+7701", "+7702"}]

RequestInvoice(Reqs) ==
    /\ lastOp = Idle
    /\ Len(subscriptions) < MaxSubs
    /\ \E req \in Reqs : \E f \in InvoiceFaults : handleRequestInvoice(req, f)

(* ----------------------- admin decision callback ----------------------- *)
Verbs == {"pay_ok", "pay_reject", "sub_ok", "sub_reject"}

(* the callback data split at ":" *)
Tokens ==
    { <<v, i, u>> : v \in Verbs, i \in {"1", "2"}, u \in {"1", "2"} }
      \cup { <<v, "x", "1">> : v \in Verbs } \cup { <<v, "1", "x">> : v \in Verbs }
      \cup { <<"">>, <<"pay_later", "1", "1">>, <<"pay_ok", "1">>, <<"sub_ok", "1", "1", "1">> }

CallbackFaults ==
    { [update |-> u, update2 |-> TRUE, get |-> TRUE, save |-> TRUE, send |-> TRUE] : u \in BOOLEAN }
      \cup { [update |-> TRUE, update2 |-> FALSE, get |-> TRUE, save |-> TRUE, send |-> TRUE],
             [update |-> TRUE, update2 |-> TRUE, get |-> FALSE, save |-> TRUE, send |-> TRUE],
             [update |-> TRUE, update2 |-> TRUE, get |-> TRUE, save |-> FALSE, send |-> TRUE],
             [update |-> TRUE, update2 |-> TRUE, get |-> TRUE, save |-> TRUE, send |-> FALSE] }

SetOrderPaidClearsTotal(tbl, id, ok) ==
    IF ok /\ id \in 1..Len(tbl)
    THEN [tbl EXCEPT ![id].status = "paid", ![id].total_amount = 0]
    ELSE tbl

SetOrderPaidToggle(tbl, id, ok) ==
    IF ok /\ id \in 1..Len(tbl)
    THEN [tbl EXCEPT ![id].status = IF tbl[id].status = "paid" THEN "new" ELSE "paid"]
    ELSE tbl

SetOrderPaidOrCancelled(tbl, id, ok) ==
    IF ok /\ id \in 1..Len(tbl)
    THEN [tbl EXCEPT ![id].status = IF tbl[id].status = "paid" THEN "cancelled" ELSE "paid"]
    ELSE tbl

(* UPDATE orders SET status = 'paid' WHERE id = ? *)
SetOrderPaid(tbl, id, ok) ==
    IF ok /\ id \in 1..Len(tbl) THEN [tbl EXCEPT ![id].status = "paid"] ELSE tbl

SetSubActiveKeepsStatus(tbl, id, until, ok) ==
    IF ok /\ id \in 1..Len(tbl)
    THEN [tbl EXCEPT ![id].valid_until = TimeAt(until)]
    ELSE tbl

SetSubActiveIfPending(tbl, id, until, ok) ==
    IF ok /\ id \in 1..Len(tbl) /\ tbl[id].status = "pending"
    THEN [tbl EXCEPT ![id].status = "active", ![id].valid_until = TimeAt(until)]
    ELSE tbl

(* UPDATE subscriptions SET status = 'active', valid_until = ? WHERE id = ? *)
SetSubActive(tbl, id, until, ok) ==
    IF ok /\ id \in 1..Len(tbl)
    THEN [tbl EXCEPT ![id].status = "active", ![id].valid_until = TimeAt(until)]
    ELSE tbl

SetSubRejectedEveryRow(tbl, id, ok) ==
    IF ok /\ id \in 1..Len(tbl) THEN [i \in 1..Len(tbl) |-> [tbl[i] EXCEPT !.status = "rejected"]]
    ELSE tbl

(* UPDATE subscriptions SET status = 'rejected' WHERE id = ? *)
SetSubRejected(tbl, id, ok) ==
    IF ok /\ id \in 1..Len(tbl) THEN [tbl EXCEPT ![id].status = "rejected"] ELSE tbl

SetUserActiveKeepsUntil(tbl, tg, until, ok) ==
    IF ok /\ tg \in DOMAIN tbl /\ tbl[tg] # NoUser
    THEN [tbl EXCEPT ![tg] = <<[tbl[tg][1] EXCEPT !.sub_status = "active"]>>]
    ELSE tbl

SetUserActiveIfSession(tbl, tg, until, ok) ==
    IF ok /\ tg \in DOMAIN tbl /\ tbl[tg] # NoUser
          /\ \E b \in DOMAIN sessions : FormatInt(b) = tg /\ sessions[b] # NoSession
    THEN [tbl EXCEPT ![tg] = <<[tbl[tg][1] EXCEPT !.sub_status = "active",
                                                  !.sub_until = TimeAt(until)]>>]
    ELSE tbl

(* UPDATE users SET sub_status = 'active', sub_until = ? WHERE user_id = ? *)
SetUserActive(tbl, tg, until, ok) ==
    IF ok /\ tg \in DOMAIN tbl /\ tbl[tg] # NoUser
    THEN [tbl EXCEPT ![tg] = <<[tbl[tg][1] EXCEPT !.sub_status = "active",
                                                  !.sub_until = TimeAt(until)]>>]
    ELSE tbl

(* now.AddDate(0, 1, 0) *)
AddMonth(t) == AddDate(t, 0, 1, 0)

ResetSessionIfPresent(store, uid, f) ==
    LET got == GetUserState(store, uid, f.get)
    IN  IF got = NoSession THEN store
        ELSE SaveUserState(store, uid, [got[1] EXCEPT !.State = stateStart, !.IsPaid = TRUE],
                           f.save)

ResetSessionAfterUpdate(store, uid, f) ==
    LET got == GetUserState(store, uid, f.get)
        state == IF got = NoSession THEN UserState("", "", "", FALSE) ELSE got[1]
    IN  IF ~f.update THEN store
        ELSE SaveUserState(store, uid, [state EXCEPT !.State = stateStart, !.IsPaid = TRUE],
                           f.save)

ResetSessionClearsContact(store, uid, f) ==
    LET got == GetUserState(store, uid, f.get)
        state == IF got = NoSession THEN UserState("", "", "", FALSE) ELSE got[1]
    IN  SaveUserState(store, uid,
                      [state EXCEPT !.State = stateStart, !.IsPaid = TRUE, !.Contact = ""], f.save)

(* read-modify-write of the buyer's session after an approval *)
ResetSession(store, uid, f) ==
    LET got == GetUserState(store, uid, f.get)
        state == IF got = NoSession THEN UserState("", "", "", FALSE) ELSE got[1]
    IN  SaveUserState(store, uid, [state EXCEPT !.State = stateStart, !.IsPaid = TRUE], f.save)

ResetEvents(f) == <<Ev("session_get", f.get), Ev("session_save", f.save)>>

(* the order had status 'paid' before this callback was handled *)
PaidBefore(tbl, id) == id \in 1..Len(tbl) /\ tbl[id].status = "paid"

(* the subscription's status before this callback was handled, "" when there is no such row *)
StatusBefore(tbl, id) == IF id \in 1..Len(tbl) THEN tbl[id].status ELSE ""

CbDone(data, action, mainID, userID, evs) ==
    lastOp' = [op |-> "callback", data |-> data, action |-> action, mainID |-> mainID,
               userID |-> userID, paid_before |-> PaidBefore(orders, mainID),
               sub_before |-> StatusBefore(subscriptions, mainID),
               status |-> 0, events |-> evs]

ActionOfRejectAsOk(data) ==
    IF Len(data) >= 2 /\ data[1] \in Verbs
    THEN (IF data[1] = "pay_reject" THEN "pay_ok" ELSE data[1])
    ELSE ""

(* switch on strings.HasPrefix(data, "pay_ok:") ...; "" is the default: return *)
ActionOf(data) == IF Len(data) >= 2 /\ data[1] \in Verbs THEN data[1] ELSE ""

PaymentCallbackHandler(data, f) ==
    LET action == ActionOf(data)
        mainID == IF Len(data) = 3 THEN ParseInt(data[2]).val ELSE 0
        userID == IF Len(data) = 3 THEN ParseInt(data[3]).val ELSE 0
        validUntil == AddMonth(now)
        notify == IF userID # 0 THEN <<Ev("notify_buyer", f.send)>> ELSE <<>>
    IN  IF action = "" \/ Len(data) # 3
        THEN /\ CbDone(data, "", 0, 0, <<>>)
             /\ UNCHANGED <<orders, order_items, subscriptions, users, sessions, now, proc>>
        ELSE CASE action = "pay_ok" ->
                    /\ orders' = IF mainID > 0 THEN SetOrderPaid(orders, mainID, f.update)
                                 ELSE orders
                    /\ sessions' = IF userID # 0 THEN ResetSession(sessions, userID, f)
                                   ELSE sessions
                    /\ CbDone(data, action, mainID, userID,
                              (IF mainID > 0 THEN <<Ev("update_order", f.update)>> ELSE <<>>)
                                \o (IF userID # 0 THEN ResetEvents(f) ELSE <<>>)
                                \o <<Ev("ack_admin", TRUE)>> \o notify)
                    /\ UNCHANGED <<order_items, subscriptions, users, now, proc>>
               [] action = "pay_reject" ->
                    /\ CbDone(data, action, mainID, userID, <<Ev("ack_admin", TRUE)>> \o notify)
                    /\ UNCHANGED <<orders, order_items, subscriptions, users, sessions, now, proc>>
               [] action = "sub_ok" ->
                    IF mainID > 0 /\ userID # 0
                    THEN /\ subscriptions' = SetSubActive(subscriptions, mainID, validUntil, f.update)
                         /\ users' = SetUserActive(users, FormatInt(userID), validUntil, f.update2)
                         /\ sessions' = ResetSession(sessions, userID, f)
                         /\ CbDone(data, action, mainID, userID,
                                   <<Ev("update_subscription", f.update), Ev("update_user", f.update2)>>
                                     \o ResetEvents(f) \o <<Ev("ack_admin", TRUE)>> \o notify)
                         /\ UNCHANGED <<orders, order_items, now, proc>>
                    ELSE /\ CbDone(data, action, mainID, userID, <<>>)
                         /\ UNCHANGED <<orders, order_items, subscriptions, users, sessions, now, proc>>
               [] OTHER ->
                    /\ subscriptions' = IF mainID > 0
                                        THEN SetSubRejected(subscriptions, mainID, f.update)
                                        ELSE subscriptions
                    /\ CbDone(data, action, mainID, userID,
                              (IF mainID > 0 THEN <<Ev("update_subscription", f.update)>> ELSE <<>>)
                                \o <<Ev("ack_admin", TRUE)>> \o notify)
                    /\ UNCHANGED <<orders, order_items, users, sessions, now, proc>>

PaymentCallback ==
    /\ lastOp = Idle
    /\ \E data \in Tokens : \E f \in CallbackFaults : PaymentCallbackHandler(data, f)

(* the admin presses a control of one kind of forwarded receipt *)
AdminDecision(Toks) ==
    /\ lastOp = Idle
    /\ \E data \in Toks : \E f \in CallbackFaults : PaymentCallbackHandler(data, f)

(* --------------------------- receipt routing --------------------------- *)
MaxOf(S) == CHOOSE m \in S : \A x \in S : x <= m

MessageFaults ==
    { [get |-> g, subq |-> TRUE, orderq |-> TRUE, copy |-> TRUE, send |-> TRUE] : g \in BOOLEAN }
      \cup { [get |-> TRUE, subq |-> FALSE, orderq |-> TRUE, copy |-> TRUE, send |-> TRUE],
             [get |-> TRUE, subq |-> TRUE, orderq |-> FALSE, copy |-> TRUE, send |-> TRUE],
             [get |-> TRUE, subq |-> TRUE, orderq |-> TRUE, copy |-> FALSE, send |-> TRUE],
             [get |-> TRUE, subq |-> TRUE, orderq |-> TRUE, copy |-> TRUE, send |-> FALSE] }

(* SELECT ... FROM subscriptions WHERE user_id = ? AND status = 'pending' *)
(* ORDER BY id DESC LIMIT 1; 0 when the query fails or finds no row        *)
LastPendingSub(tbl, tg, ok) ==
    LET rows == { i \in 1..Len(tbl) : tbl[i].user_id = tg /\ tbl[i].status = "pending" }
    IN  IF ok /\ rows # {} THEN MaxOf(rows) ELSE 0

(* SELECT id, total_amount FROM orders WHERE user_id = ? ORDER BY id DESC LIMIT 1 *)
LastOrder(tbl, tg, ok) ==
    LET rows == { i \in 1..Len(tbl) : tbl[i].user_id = tg }
    IN  IF ok /\ rows # {} THEN MaxOf(rows) ELSE 0

MsgDone(upd, routed, controls, failed, evs) ==
    /\ lastOp' = [op |-> "message", update |-> upd, routed |-> routed, controls |-> controls,
                  failed |-> failed, status |-> 0, events |-> evs]
    /\ UNCHANGED <<orders, order_items, subscriptions, users, sessions, now, proc>>

ForwardFailedOnAnySend(copied, told) == ~copied \/ ~told

(* the error handlePaymentDocument returns: CopyMessage's, never SendMessage's *)
ForwardFailed(copied, told) == ~copied

handlePaymentDocument(upd, state, f, evs) ==
    LET userID == upd.from
        userIDStr == FormatInt(userID)
        subID == LastPendingSub(subscriptions, userIDStr, f.subq)
        orderID == LastOrder(orders, userIDStr, f.orderq)
        subControls == << <<"sub_ok", FormatInt(subID), FormatInt(userID)>>,
                          <<"sub_reject", FormatInt(subID), FormatInt(userID)>> >>
        payControls == << <<"pay_ok", FormatInt(orderID), FormatInt(userID)>>,
                          <<"pay_reject", FormatInt(orderID), FormatInt(userID)>> >>
        subq == evs \o <<Ev("select_subscription", f.subq)>>
        orderq == subq \o <<Ev("select_order", f.orderq)>>
    IN  IF subID > 0
        THEN IF ~f.copy
             THEN MsgDone(upd, "none", <<>>, ForwardFailed(f.copy, f.send),
                          subq \o <<Ev("forward_admin", FALSE)>>)
             ELSE MsgDone(upd, "subscription", subControls, ForwardFailed(f.copy, f.send),
                          subq \o <<Ev("forward_admin", TRUE), Ev("notify_buyer", f.send)>>)
        ELSE IF ~f.copy
             THEN MsgDone(upd, "none", <<>>, ForwardFailed(f.copy, f.send),
                          orderq \o <<Ev("forward_admin", FALSE)>>)
             ELSE MsgDone(upd, "order", payControls, ForwardFailed(f.copy, f.send),
                          orderq \o <<Ev("forward_admin", TRUE), Ev("notify_buyer", f.send)>>)

IsDocumentInAnyState(upd, state) == upd.document /\ state # NoSession

(* update.Message.Document != nil, state != nil && state.State == stateWaitingPayment *)
IsPaymentDocument(upd, state) ==
    upd.document /\ state # NoSession /\ state[1].State = stateWaitingPayment

DefaultHandler(upd, f) ==
    LET state == GetUserState(sessions, upd.from, f.get)
    IN  IF IsPaymentDocument(upd, state)
        THEN handlePaymentDocument(upd, state[1], f, <<Ev("session_get", f.get)>>)
        ELSE MsgDone(upd, "none", <<>>, FALSE,
                     (IF upd.document THEN <<Ev("session_get", f.get)>> ELSE <<>>)
                       \o <<Ev("greeting", f.send)>>)

Updates == [from : Buyers, document : BOOLEAN]

BuyerMessage ==
    /\ lastOp = Idle
    /\ \E upd \in Updates : \E f \in MessageFaults : DefaultHandler(upd, f)

(* --------------------------- expiry sweeper ---------------------------- *)
(* date a is earlier than date b *)
Before(a, b) ==
    \/ a.y < b.y
    \/ a.y = b.y /\ a.m < b.m
    \/ a.y = b.y /\ a.m = b.m /\ a.d < b.d

(* an active row whose date is in the past at time t *)
Lapsed(status, until, t) == status = "active" /\ until.Valid /\ Before(until.Time, t)

ExpireSubscriptionsFirstRow(tbl, t, ok) ==
    LET lapsed == { i \in 1..Len(tbl) : Lapsed(tbl[i].status, tbl[i].valid_until, t) }
    IN  IF ok /\ lapsed # {}
        THEN [tbl EXCEPT ![CHOOSE i \in lapsed : \A j \in lapsed : i <= j].status = "expired"]
        ELSE tbl

(* bulk update (a): active subscriptions past validUntil become expired *)
ExpireSubscriptions(tbl, t, ok) ==
    IF ok
    THEN [i \in 1..Len(tbl) |->
            IF Lapsed(tbl[i].status, tbl[i].valid_until, t)
            THEN [tbl[i] EXCEPT !.status = "expired"] ELSE tbl[i]]
    ELSE tbl

ExpireUsersKeepsUntil(tbl, t, ok) ==
    IF ok
    THEN [tg \in DOMAIN tbl |->
            IF tbl[tg] # NoUser /\ Lapsed(tbl[tg][1].sub_status, tbl[tg][1].sub_until, t)
            THEN <<[tbl[tg][1] EXCEPT !.sub_status = "expired"]>>
            ELSE tbl[tg]]
    ELSE tbl

(* bulk update (b): active users past subUntil become expired, subUntil = null *)
ExpireUsers(tbl, t, ok) ==
    IF ok
    THEN [tg \in DOMAIN tbl |->
            IF tbl[tg] # NoUser /\ Lapsed(tbl[tg][1].sub_status, tbl[tg][1].sub_until, t)
            THEN <<[tbl[tg][1] EXCEPT !.sub_status = "expired", !.sub_until = NullTime]>>
            ELSE tbl[tg]]
    ELSE tbl

SweepFaults == [subs : BOOLEAN, users : BOOLEAN]

(* one tick: the two bulk updates, each attempted whatever the other did *)
sweepExpiredSubscriptions(f) ==
    /\ subscriptions' = ExpireSubscriptions(subscriptions, now, f.subs)
    /\ users' = ExpireUsers(users, now, f.users)
    /\ lastOp' = [op |-> "sweep", status |-> 0, follows_tick |-> (lastOp.op = "sweep"),
                  events |-> <<Ev("expire_subscriptions", f.subs), Ev("expire_users", f.users)>>]
    /\ UNCHANGED <<orders, order_items, sessions, now>>

(* a tick may follow a handler or the previous tick *)
Sweep ==
    /\ lastOp = Idle \/ lastOp.op = "sweep"
    /\ \E f \in SweepFaults : sweepExpiredSubscriptions(f)
    /\ UNCHANGED proc

(* ------------------------------- clock --------------------------------- *)
ClockEnd == Date(2024, 4, 1)

(* time passes between two handlers *)
AdvanceClock ==
    /\ lastOp = Idle
    /\ Before(now, ClockEnd)
    /\ now' = AddDate(now, 0, 0, 20)
    /\ UNCHANGED <<orders, order_items, subscriptions, users, sessions, lastOp, proc>>

(* ------------------------- process lifetime ---------------------------- *)
(* <-stop; cancel(): the root context, which is also h.ctx, is done *)
Signal ==
    /\ ~proc.ctxDone /\ ~proc.exited
    /\ proc' = [proc EXCEPT !.ctxDone = TRUE]
    /\ UNCHANGED <<orders, order_items, subscriptions, users, sessions, now, lastOp>>

(* the sweeper's first tick, run as soon as it starts *)
SweeperFirstTick ==
    /\ lastOp = Idle
    /\ proc.sweeper = "start"
    /\ \E f \in SweepFaults : sweepExpiredSubscriptions(f)
    /\ proc' = [proc EXCEPT !.sweeper = "waiting"]

(* one interval passes while the sweeper waits: the clock moves and a tick is due *)
IntervalElapses ==
    /\ lastOp = Idle
    /\ proc.sweeper = "waiting" /\ ~proc.due
    /\ Before(now, ClockEnd)
    /\ now' = AddDate(now, 0, 0, 20)
    /\ proc' = [proc EXCEPT !.due = TRUE]
    /\ UNCHANGED <<orders, order_items, subscriptions, users, sessions, lastOp>>

SweeperIntervalTickIgnoresSignal ==
    /\ lastOp = Idle
    /\ proc.sweeper = "waiting" /\ proc.due
    /\ \E f \in SweepFaults : sweepExpiredSubscriptions(f)
    /\ proc' = [proc EXCEPT !.due = FALSE]

(* the tick of an elapsed interval, taken only while the context is live *)
SweeperIntervalTick ==
    /\ lastOp = Idle
    /\ proc.sweeper = "waiting" /\ proc.due /\ ~proc.ctxDone
    /\ \E f \in SweepFaults : sweepExpiredSubscriptions(f)
    /\ proc' = [proc EXCEPT !.due = FALSE]

(* the waiting sweeper observes the cancellation and returns *)
SweeperExit ==
    /\ proc.sweeper = "waiting" /\ proc.ctxDone
    /\ proc' = [proc EXCEPT !.sweeper = "exited"]
    /\ UNCHANGED <<orders, order_items, subscriptions, users, sessions, now, lastOp>>

(* server.Shutdown after <-ctx.Done(): the web server accepts no new request *)
ServerShutdown ==
    /\ proc.ctxDone /\ ~proc.closed /\ ~proc.exited
    /\ proc' = [proc EXCEPT !.closed = TRUE]
    /\ UNCHANGED <<orders, order_items, subscriptions, users, sessions, now, lastOp>>

(* b.Start(ctx) returns once the context is done and main returns with it:  *)
(* the process ends, and every goroutine still running ends with it         *)
MainReturns ==
    /\ proc.ctxDone /\ ~proc.exited
    /\ proc' = [proc EXCEPT !.exited = TRUE]
    /\ UNCHANGED <<orders, order_items, subscriptions, users, sessions, now, lastOp>>

(* the bot delivers an update only while b.Start(ctx) is running *)
BotUpdate(Toks) ==
    /\ ~proc.ctxDone /\ ~proc.exited
    /\ AdminDecision(Toks)

(* handleConfirmOrder up to tx.Commit, on a request the server accepted *)
ConfirmCommitUpTo(Reqs, cap) ==
    /\ lastOp = Idle
    /\ ~proc.closed /\ ~proc.exited /\ proc.inflight = "none"
    /\ Len(orders) < cap
    /\ \E req \in Reqs :
          LET tgStr == TrimSpace(req.telegram_id)
              goodsTotal == GoodsTotal(req.items)
              isDelivery == EqualFold(req.delivery.Type, "delivery")
              deliveryPrice == IF isDelivery THEN DeliveryFlatRate ELSE 0
              items == IF isDelivery THEN Append(req.items, DeliveryItem) ELSE req.items
              total == goodsTotal + deliveryPrice
              tx == OrderTx(Ledger(orders, order_items), tgStr, total, items,
                            [at |-> "none", k |-> 1])
          IN  /\ orders' = tx.db.orders
              /\ order_items' = tx.db.order_items
              /\ lastOp' = [op |-> "confirm", req |-> req, status |-> 0,
                            resp |-> [order_id |-> tx.order_id, goods_total |-> goodsTotal,
                                      delivery_price |-> deliveryPrice, total |-> total],
                            receipt_total |-> ReceiptTotal(items, total),
                            before_signal |-> ~proc.ctxDone,
                            events |-> tx.events]
    /\ proc' = [proc EXCEPT !.inflight = "committed"]
    /\ UNCHANGED <<subscriptions, users, sessions, now>>

ConfirmCommit(Reqs) == ConfirmCommitUpTo(Reqs, MaxOrders)

(* the same handler's SaveUserState(h.ctx, ...): h.ctx is the root context,  *)
(* so after the signal the store is called with a cancelled context         *)
ConfirmSaveSession ==
    /\ proc.inflight = "committed" /\ ~proc.exited
    /\ \E ok \in BOOLEAN :
          LET req == lastOp.req
              uid == ParseInt(TrimSpace(req.telegram_id))
              payMethod == IF TrimSpace(req.payment_method) = "" THEN paymentKaspiLink
                           ELSE TrimSpace(req.payment_method)
              st == UserState(stateWaitingPayment, payMethod, req.delivery.Phone, FALSE)
          IN  /\ sessions' = IF uid.ok THEN SaveUserState(sessions, uid.val, st, ok)
                             ELSE sessions
              /\ lastOp' = [lastOp EXCEPT !.events =
                                @ \o (IF uid.ok THEN <<Ev("session_save", ok)>> ELSE <<>>)]
    /\ proc' = [proc EXCEPT !.inflight = "saved"]
    /\ UNCHANGED <<orders, order_items, subscriptions, users, now>>

(* the same handler's notifyAdmin and sendOrderReceiptToUser, then its answer *)
ConfirmNotify ==
    /\ proc.inflight = "saved" /\ ~proc.exited
    /\ \E a \in BOOLEAN : \E b \in BOOLEAN :
          lastOp' = [lastOp EXCEPT !.status = 200,
                                   !.events = @ \o notifyAdmin(a)
                                                \o sendOrderReceiptToUser(lastOp.req.telegram_id, b)]
    /\ proc' = [proc EXCEPT !.inflight = "none"]
    /\ UNCHANGED <<orders, order_items, subscriptions, users, sessions, now>>

(* ------------------------ subscription status -------------------------- *)
StatusFaults == [users : BOOLEAN, subs : BOOLEAN]

StatusDone(tg, code, active, until, evs) ==
    /\ lastOp' = [op |-> "sub_status", telegram_id |-> tg, status |-> code,
                  active |-> active, until |-> until, events |-> evs]
    /\ UNCHANGED <<orders, order_items, subscriptions, users, sessions, now, proc>>

(* subUntil.Valid && subUntil.Time.After(now) *)
ValidAfter(until, t) == until.Valid /\ Before(t, until.Time)

(* SELECT valid_until FROM subscriptions WHERE user_id = ? AND status = 'active' *)
(* ORDER BY valid_until DESC LIMIT 1, scanned into dest: dest keeps its value     *)
(* when the query fails or finds no row                                           *)
LatestActiveUntil(tbl, tg, dest, ok) ==
    LET rows == { i \in 1..Len(tbl) : tbl[i].user_id = tg /\ tbl[i].status = "active" }
        later(a, b) == a.Valid /\ (~b.Valid \/ Before(b.Time, a.Time))
        top == CHOOSE i \in rows :
                  \A j \in rows : ~later(tbl[j].valid_until, tbl[i].valid_until)
    IN  IF ok /\ rows # {} THEN tbl[top].valid_until ELSE dest

(* GET /api/user/subscription-status *)
handleGetSubStatus(tg, f) ==
    LET telegramID == TrimSpace(tg)
        found == telegramID \in DOMAIN users /\ users[telegramID] # NoUser
        subStatus == IF found THEN users[telegramID][1].sub_status ELSE ""
        subUntil == IF found THEN users[telegramID][1].sub_until ELSE NullTime
        fromSubs == LatestActiveUntil(subscriptions, telegramID, subUntil, f.subs)
        q1 == <<Ev("select_user", f.users)>>
    IN  IF telegramID = ""
        THEN StatusDone(tg, 400, FALSE, NullTime, <<>>)
        ELSE IF ~f.users
        THEN StatusDone(tg, 500, FALSE, NullTime, q1)
        ELSE IF subStatus = "active" /\ ValidAfter(subUntil, now)
        THEN StatusDone(tg, 200, TRUE, subUntil, q1)
        ELSE IF ValidAfter(fromSubs, now)
        THEN StatusDone(tg, 200, TRUE, fromSubs, q1 \o <<Ev("select_subscription", f.subs)>>)
        ELSE StatusDone(tg, 200, FALSE, NullTime, q1 \o <<Ev("select_subscription", f.subs)>>)

GetSubStatus ==
    /\ lastOp = Idle
    /\ \E tg \in TgInputs : \E f \in StatusFaults : handleGetSubStatus(tg, f)

(* ----------------------- concurrent bot handlers ----------------------- *)
(* The bot runs the handler of every update in a goroutine of its own and   *)
(* the web server every request in another, so a callback is a sequence of  *)
(* steps: each database statement, each session call and the final answer    *)
(* is one step, and the steps of other handlers may fall between them.       *)
(* proc.cb[i] holds the locals of the callback worker i.                     *)

(* the calls PaymentCallbackHandler makes for data, in the order it makes them *)
CallbackSteps(data) ==
    LET action == ActionOf(data)
        mainID == IF Len(data) = 3 THEN ParseInt(data[2]).val ELSE 0
        userID == IF Len(data) = 3 THEN ParseInt(data[3]).val ELSE 0
        session == IF userID # 0 THEN <<"session_get", "session_save">> ELSE <<>>
    IN  IF action = "" \/ Len(data) # 3 THEN <<>>
        ELSE CASE action = "pay_ok" ->
                    (IF mainID > 0 THEN <<"update_order">> ELSE <<>>) \o session \o <<"ack_admin">>
               [] action = "pay_reject" -> <<"ack_admin">>
               [] action = "sub_ok" ->
                    IF mainID > 0 /\ userID # 0
                    THEN <<"update_subscription", "update_user">> \o session \o <<"ack_admin">>
                    ELSE <<>>
               [] OTHER ->
                    (IF mainID > 0 THEN <<"update_subscription">> ELSE <<>>) \o <<"ack_admin">>

NoCallbackRunning == \A i \in CallbackSlots : proc.cb[i] = NoCall

(* a worker takes a callback update: the token is parsed and, for sub_ok,   *)
(* time.Now() is read; base is the ledger as the first worker found it       *)
CallbackBegin(Toks, Slots) ==
    /\ \E i \in Slots : \E data \in Toks :
          /\ proc.cb[i] = NoCall
          /\ \A j \in Slots : j < i => proc.cb[j] # NoCall
          /\ proc' = [proc EXCEPT
                        !.cb[i] = [NoCall EXCEPT !.data = data, !.todo = CallbackSteps(data),
                                                 !.done = (CallbackSteps(data) = <<>>),
                                                 !.until = AddMonth(now)],
                        !.base = IF NoCallbackRunning THEN Ledger(orders, order_items) ELSE @]
    /\ UNCHANGED <<orders, order_items, subscriptions, users, sessions, now, lastOp>>

(* the next call of worker i; ok is whether the store or the bot API accepts it *)
CallbackStep(i, ok) ==
    LET c == proc.cb[i]
        step == Head(c.todo)
        action == ActionOf(c.data)
        mainID == ParseInt(c.data[2]).val
        userID == ParseInt(c.data[3]).val
        held == IF c.state = NoSession THEN UserState("", "", "", FALSE) ELSE c.state[1]
        next == [c EXCEPT !.todo = Tail(@), !.done = (Tail(c.todo) = <<>>),
                          !.events = Append(@, Ev(step, ok))]
    IN  /\ c.todo # <<>>
        /\ CASE step = "update_order" ->
                  /\ orders' = SetOrderPaid(orders, mainID, ok)
                  /\ proc' = [proc EXCEPT !.cb[i] = next]
                  /\ UNCHANGED <<subscriptions, users, sessions>>
             [] step = "update_subscription" ->
                  /\ subscriptions' = IF action = "sub_ok"
                                      THEN SetSubActive(subscriptions, mainID, c.until, ok)
                                      ELSE SetSubRejected(subscriptions, mainID, ok)
                  /\ proc' = [proc EXCEPT !.cb[i] = next]
                  /\ UNCHANGED <<orders, users, sessions>>
             [] step = "update_user" ->
                  /\ users' = SetUserActive(users, FormatInt(userID), c.until, ok)
                  /\ proc' = [proc EXCEPT !.cb[i] = next]
                  /\ UNCHANGED <<orders, subscriptions, sessions>>
             [] step = "session_get" ->
                  /\ proc' = [proc EXCEPT !.cb[i] =
                                [next EXCEPT !.state = GetUserState(sessions, userID, ok),
                                             !.seen = GetUserState(sessions, userID, TRUE)]]
                  /\ UNCHANGED <<orders, subscriptions, users, sessions>>
             [] step = "session_save" ->
                  /\ sessions' = SaveUserState(sessions, userID,
                                               [held EXCEPT !.State = stateStart, !.IsPaid = TRUE], ok)
                  /\ proc' = [proc EXCEPT !.cb[i] =
                                [next EXCEPT !.stale =
                                    (GetUserState(sessions, userID, TRUE) # c.seen)]]
                  /\ UNCHANGED <<orders, subscriptions, users>>
             [] OTHER ->
                  /\ proc' = [proc EXCEPT !.cb[i] =
                                [next EXCEPT !.events =
                                    c.events \o <<Ev("ack_admin", TRUE)>>
                                      \o (IF userID # 0 THEN <<Ev("notify_buyer", ok)>> ELSE <<>>)]]
                  /\ UNCHANGED <<orders, subscriptions, users, sessions>>
        /\ UNCHANGED <<order_items, now, lastOp>>

(* any worker with a call left makes it; Oks are the outcomes the call can have *)
CallbackRun(Oks) == \E i \in CallbackSlots : \E ok \in Oks : CallbackStep(i, ok)

(* the workers are released once every handler of the episode has returned *)
CallbackReturn ==
    /\ proc.inflight = "none"
    /\ ~NoCallbackRunning
    /\ \A i \in CallbackSlots : proc.cb[i] = NoCall \/ proc.cb[i].done
    /\ proc' = [proc EXCEPT !.cb = [i \in CallbackSlots |-> NoCall]]
    /\ UNCHANGED <<orders, order_items, subscriptions, users, sessions, now, lastOp>>

(* --------------------------- session loss ------------------------------ *)
(* the Session Store is volatile: a buyer's record may be evicted or lost at any time *)
EvictSession ==
    /\ lastOp = Idle
    /\ \E b \in Buyers :
          /\ sessions[b] # NoSession
          /\ sessions' = [sessions EXCEPT ![b] = NoSession]
          /\ lastOp' = [op |-> "evict", buyer |-> b, status |-> 0, events |-> <<>>]
    /\ UNCHANGED <<orders, order_items, subscriptions, users, now, proc>>

(* --------------------------- specifications ---------------------------- *)
WorkflowConfirmRequests ==
    [telegram_id : {"1", "2"}, items : { <<[product_id |-> 7, qty2 |-> 3, price |-> 3]>> },
     delivery : [Type : {"delivery", "pickup"}, Phone : Phones], payment_method : {"cash"}]

WorkflowCreateRequests ==
    [telegram_id : {"1", "2"}, items : { <<[product_id |-> 7, qty2 |-> 3, price |-> 3]>> }]

WorkflowInvoiceRequests == [telegram_id : {"1"}, phone : Phones]

Next ==
    \/ ConfirmOrder(WorkflowConfirmRequests)
    \/ CreateOrder(WorkflowCreateRequests)
    \/ RequestInvoice(WorkflowInvoiceRequests)
    \/ PaymentCallback
    \/ BuyerMessage
    \/ Respond

Spec == Init /\ [][Next]_vars

NextOrders == ConfirmOrder(ConfirmRequests) \/ CreateOrder(CreateRequests) \/ Respond

SpecOrders == Init /\ [][NextOrders]_vars

NextInvoice == RequestInvoice(InvoiceRequests) \/ Respond

SpecInvoice == Init /\ [][NextInvoice]_vars

(* the two requests that write the ledger and then notify *)
NextRequests ==
    \/ ConfirmOrder(WorkflowConfirmRequests)
    \/ CreateOrder(WorkflowCreateRequests)
    \/ RequestInvoice(InvoiceRequests)
    \/ Respond

SpecRequests == Init /\ [][NextRequests]_vars

(* an order's life: creation, admin decisions, the buyer's documents *)
NextLedger ==
    \/ ConfirmOrder(WorkflowConfirmRequests)
    \/ CreateOrder(WorkflowCreateRequests)
    \/ PaymentCallback
    \/ BuyerMessage
    \/ Respond

SpecLedger == Init /\ [][NextLedger]_vars

(* a buyer enters AwaitingPayment by either request and sends messages *)
NextRouting ==
    \/ ConfirmOrder(WorkflowConfirmRequests)
    \/ RequestInvoice(WorkflowInvoiceRequests)
    \/ BuyerMessage
    \/ Respond

SpecRouting == Init /\ [][NextRouting]_vars

SubscriptionRequests == [telegram_id : {"2"}, phone : Phones]

SubscriptionTokens ==
    { <<v, i, "2">> : v \in {"sub_ok", "sub_reject"}, i \in {"1", "2"} }

(* a subscription's life: the request and the admin's decision, on any date *)
NextSubscription ==
    \/ RequestInvoice(SubscriptionRequests)
    \/ AdminDecision(SubscriptionTokens)
    \/ Respond

SpecSubscription == InitCalendar /\ [][NextSubscription]_vars

DecisionConfirmRequests ==
    [telegram_id : {"1"}, items : { <<[product_id |-> 7, qty2 |-> 3, price |-> 3]>> },
     delivery : [Type : {"pickup"}, Phone : Phones], payment_method : {"cash"}]

DecisionInvoiceRequests == [telegram_id : {"2"}, phone : Phones]

(* the controls handlePaymentDocument can attach, pressed in any order and any number of times *)
DecisionTokens ==
    { <<v, "1", "1">> : v \in {"pay_ok", "pay_reject"} }
      \cup { <<v, i, "2">> : v \in {"sub_ok", "sub_reject"}, i \in {"1", "2"} }

(* an order of one buyer and the subscriptions of another under the admin's decisions *)
NextDecisions ==
    \/ ConfirmOrder(DecisionConfirmRequests)
    \/ RequestInvoice(DecisionInvoiceRequests)
    \/ AdminDecision(DecisionTokens)
    \/ Respond

SpecDecisions == Init /\ [][NextDecisions]_vars

(* subscriptions approved at different times, the clock and the sweeper *)
NextSweeper ==
    \/ RequestInvoice(SubscriptionRequests)
    \/ AdminDecision(SubscriptionTokens)
    \/ AdvanceClock
    \/ Sweep
    \/ Respond

SpecSweeper == Init /\ [][NextSweeper]_vars

SweeperLifeTokens == { <<"sub_ok", "1", "2">> }

(* the sweeper from its start to its exit, beside a subscription being approved *)
NextSweeperLife ==
    \/ RequestInvoice(SubscriptionRequests)
    \/ AdminDecision(SweeperLifeTokens)
    \/ SweeperFirstTick
    \/ IntervalElapses
    \/ SweeperIntervalTick
    \/ Signal
    \/ SweeperExit
    \/ Respond

SpecSweeperLife == Init /\ [][NextSweeperLife]_vars

(* every handler returns, and the sweeper's goroutine is scheduled: handlers  *)
(* running beside it do not keep it from its first tick, and nothing keeps   *)
(* it from observing the cancelled context                                   *)
SpecSweeperLifeFair ==
    SpecSweeperLife /\ WF_vars(Respond) /\ SF_vars(SweeperFirstTick) /\ WF_vars(SweeperExit)

ShutdownTokens == { <<v, "1", u>> : v \in {"pay_ok", "pay_reject"}, u \in {"1", "2"} }

(* requests and updates in flight while the process is told to stop *)
NextShutdown ==
    \/ ConfirmCommit(WorkflowConfirmRequests)
    \/ ConfirmSaveSession
    \/ ConfirmNotify
    \/ BotUpdate(ShutdownTokens)
    \/ Signal
    \/ ServerShutdown
    \/ MainReturns
    \/ Respond

SpecShutdown == Init /\ [][NextShutdown]_vars

RedeliveryConfirmRequests ==
    [telegram_id : {"2"}, items : { <<[product_id |-> 7, qty2 |-> 3, price |-> 3]>> },
     delivery : [Type : {"pickup"}, Phone : Phones], payment_method : {"cash"}]

RedeliveryTokens == { <<"pay_ok", "1", "2">>, <<"sub_ok", "1", "2">>, <<"sub_reject", "1", "2">> }

(* an order and a subscription decided again and again, in every status they can take *)
NextRedelivery ==
    \/ ConfirmOrder(RedeliveryConfirmRequests)
    \/ RequestInvoice(SubscriptionRequests)
    \/ AdminDecision(RedeliveryTokens)
    \/ AdvanceClock
    \/ Sweep
    \/ Respond

SpecRedelivery == Init /\ [][NextRedelivery]_vars

EvictionInvoiceRequests == [telegram_id : {"1"}, phone : Phones]

EvictionTokens ==
    { <<v, "1", "1">> : v \in Verbs }

(* one buyer's order and subscription while the session record can vanish *)
NextEviction ==
    \/ ConfirmOrder(DecisionConfirmRequests)
    \/ RequestInvoice(EvictionInvoiceRequests)
    \/ AdminDecision(EvictionTokens)
    \/ BuyerMessage
    \/ EvictSession
    \/ Respond

SpecEviction == Init /\ [][NextEviction]_vars

RaceConfirmRequests ==
    [telegram_id : {"1"}, items : { <<[product_id |-> 7, qty2 |-> 3, price |-> 3]>> },
     delivery : [Type : {"pickup"}, Phone : Phones], payment_method : PayInputs]

RaceTokens == { <<"pay_ok", "1", "1">> }

(* one order may be in creation beyond those created before the episode *)
RaceOrders == MaxOrders + 1

(* the approval of a buyer's order beside the same buyer's next order and    *)
(* documents; the order in creation answers only after the worker returned   *)
NextRace ==
    \/ NoCallbackRunning /\ ConfirmOrder(RaceConfirmRequests)
    \/ ConfirmCommitUpTo(RaceConfirmRequests, RaceOrders)
    \/ ConfirmSaveSession
    \/ ConfirmNotify
    \/ CallbackBegin(RaceTokens, {1})
    \/ CallbackRun(BOOLEAN)
    \/ CallbackReturn
    \/ BuyerMessage
    \/ NoCallbackRunning /\ Respond

SpecRace == Init /\ [][NextRace]_vars

ApprovalRaceTokens == { <<"sub_ok", "1", "2">> }

(* the approval of one subscription delivered to two workers *)
NextApprovalRace ==
    \/ NoCallbackRunning /\ RequestInvoice(SubscriptionRequests)
    \/ CallbackBegin(ApprovalRaceTokens, CallbackSlots)
    \/ CallbackRun({TRUE})
    \/ CallbackReturn
    \/ AdvanceClock
    \/ NoCallbackRunning /\ Respond

SpecApprovalRace == Init /\ [][NextApprovalRace]_vars

(* subscriptions requested, decided and queried as time passes *)
NextStatus ==
    \/ RequestInvoice(SubscriptionRequests)
    \/ AdminDecision(SubscriptionTokens)
    \/ AdvanceClock
    \/ GetSubStatus
    \/ Respond

SpecStatus == Init /\ [][NextStatus]_vars

(* ------------------------------- claims -------------------------------- *)
HasEv(evs, e) == \E i \in 1..Len(evs) : evs[i] = e

IsOrderOp(o) == o.op \in {"confirm", "create"}

LedgerSteps == {"insert_order", "prepare", "insert_item", "commit"}

NotifySteps == {"notify_admin", "notify_buyer"}

WantsDelivery(o) == o.op = "confirm" /\ o.req.delivery.Type \in {"delivery", "DELIVERY"}

EmptyId(tg) == tg \in {"", " "}

BuyerOf(tg) == CHOOSE b \in Buyers : Digits[b] = tg

RECURSIVE SumTruncated(_)
SumTruncated(items) ==
    IF items = <<>> THEN 0
    ELSE ((Head(items).qty2 * Head(items).price) \div 2) + SumTruncated(Tail(items))

RowsOf(tbl, id) == { j \in 1..Len(tbl) : tbl[j].order_id = id }

RECURSIVE SumAmounts(_, _)
SumAmounts(tbl, rows) ==
    IF rows = {} THEN 0
    ELSE LET j == CHOOSE x \in rows : TRUE
         IN  tbl[j].amount + SumAmounts(tbl, rows \ {j})

(* C1: order creation is atomic.  When a step of the ledger write fails      *)
(* (order insert, prepare, an item insert, commit) the store holds no order  *)
(* row and no item row for the new order id; when the request succeeds the   *)
(* order row and one item row per line are there together.                   *)
C1_OrderCreationAtomic ==
    [][ (lastOp = Idle /\ IsOrderOp(lastOp')) =>
          LET newId == Len(orders) + 1
              evs == lastOp'.events
              failed == \E i \in 1..Len(evs) : evs[i].step \in LedgerSteps /\ ~evs[i].ok
              nLines == Len(lastOp'.req.items) + (IF WantsDelivery(lastOp') THEN 1 ELSE 0)
          IN  /\ failed =>
                   /\ lastOp'.status = 500
                   /\ Len(orders') < newId
                   /\ RowsOf(order_items', newId) = {}
                   /\ orders' = orders /\ order_items' = order_items
              /\ lastOp'.status = 200 =>
                   /\ Len(orders') = newId
                   /\ lastOp'.resp.order_id = newId
                   /\ Len(order_items') = Len(order_items) + nLines
                   /\ RowsOf(order_items', newId)
                        = (Len(order_items) + 1)..(Len(order_items) + nLines)
                   /\ \A k \in 1..Len(lastOp'.req.items) :
                        /\ order_items'[Len(order_items) + k].qty2 = lastOp'.req.items[k].qty2
                        /\ order_items'[Len(order_items) + k].price = lastOp'.req.items[k].price
      ]_vars

C1_Witness ==
    /\ lastOp.op = "confirm"
    /\ lastOp.status = 500
    /\ Len(lastOp.events) >= 4
    /\ lastOp.events[2] = Ev("insert_order", TRUE)
    /\ lastOp.events[4] = Ev("insert_item", FALSE)
    /\ orders = <<>> /\ order_items = <<>>

InvalidOrderReq(req) ==
    \/ EmptyId(req.telegram_id)
    \/ req.items = <<>>
    \/ \E i \in 1..Len(req.items) : req.items[i].qty2 <= 0 \/ req.items[i].price < 0

(* C2: an order request that fails validation (empty buyer id, no items, an  *)
(* item with qty <= 0 or price < 0) is answered with a 4xx status and writes *)
(* nothing: no order or item row, no session change, no notification.        *)
C2_InvalidOrderRejected ==
    [][ (lastOp = Idle /\ IsOrderOp(lastOp') /\ InvalidOrderReq(lastOp'.req)) =>
          /\ lastOp'.status \in 400..499
          /\ orders' = orders /\ order_items' = order_items
          /\ sessions' = sessions
          /\ \A i \in 1..Len(lastOp'.events) : lastOp'.events[i].step \notin NotifySteps
      ]_vars

C4_DeliveryLine ==
    (IsOrderOp(lastOp) /\ lastOp.status = 200) =>
        LET id == lastOp.resp.order_id
            synthetic == { j \in RowsOf(order_items, id) : order_items[j].product_id = 0 }
        IN  /\ lastOp.resp.goods_total = SumTruncated(lastOp.req.items)
            /\ WantsDelivery(lastOp) =>
                 /\ Cardinality(synthetic) = 1
                 /\ \A j \in synthetic : /\ order_items[j].qty2 = 2
                                         /\ order_items[j].price = 1000
                                         /\ order_items[j].amount = 1000
                 /\ lastOp.resp.delivery_price = 1000
                 /\ lastOp.resp.total = lastOp.resp.goods_total + 1000
            /\ ~WantsDelivery(lastOp) =>
                 /\ synthetic = {}
                 /\ lastOp.resp.delivery_price = 0
                 /\ lastOp.resp.total = lastOp.resp.goods_total

C4_Witness ==
    /\ lastOp.op = "confirm"
    /\ lastOp.status = 200
    /\ lastOp.req.delivery.Type = "delivery"
    /\ lastOp.req.items = <<Item(1, 3), Item(1, 3)>>
    /\ lastOp.resp.total = 1002
    /\ Len(order_items) = 3

TotalMatchesItems ==
    \A id \in 1..Len(orders) :
        LET rows == RowsOf(order_items, id)
            goods == { j \in rows : order_items[j].product_id # 0 }
            surcharge == IF rows = goods THEN 0 ELSE 1000
        IN  /\ orders[id].total_amount = SumAmounts(order_items, goods) + surcharge
            /\ orders[id].total_amount = SumAmounts(order_items, rows)

(* C5: every stored order's totalAmount is the sum of its item amounts plus  *)
(* the delivery surcharge applied at creation, and no later operation        *)
(* changes the totalAmount or the item rows of an order already stored.      *)
C5_TotalFixedAtCreation ==
    /\ []TotalMatchesItems
    /\ [][ /\ \A id \in 1..Len(orders) :
                /\ id <= Len(orders')
                /\ orders'[id].total_amount = orders[id].total_amount
           /\ Len(order_items') >= Len(order_items)
           /\ SubSeq(order_items', 1, Len(order_items)) = order_items ]_vars

C5_Witness ==
    /\ lastOp.op = "callback"
    /\ lastOp.action = "pay_ok"
    /\ Len(orders) = 1
    /\ orders[1].status = "paid"
    /\ orders[1].total_amount = 1004

(* C6: after a successful order creation, with the Session Store taking the  *)
(* write, the buyer's session is AwaitingPayment, not paid, with the         *)
(* resolved payment method (kaspi_link when none was chosen) and the         *)
(* delivery phone as contact.                                                *)
C6_SessionAfterOrder ==
    (IsOrderOp(lastOp) /\ lastOp.status = 200
       /\ ~HasEv(lastOp.events, Ev("session_save", FALSE))) =>
        LET b == BuyerOf(lastOp.req.telegram_id)
        IN  /\ sessions[b] # NoSession
            /\ sessions[b][1].State = "AwaitingPayment"
            /\ sessions[b][1].IsPaid = FALSE
            /\ lastOp.op = "confirm" =>
                 /\ sessions[b][1].BroadCastType
                      = (IF lastOp.req.payment_method = "" THEN "kaspi_link"
                         ELSE lastOp.req.payment_method)
                 /\ sessions[b][1].Contact = lastOp.req.delivery.Phone

(* C7: once the order's transaction has committed the request answers "ok"   *)
(* with the order id and totals and the order is stored, whether or not the  *)
(* session write, the admin notification or the buyer receipt fails.         *)
C7_CommitIsAuthoritative ==
    (IsOrderOp(lastOp) /\ HasEv(lastOp.events, Ev("commit", TRUE))) =>
        /\ lastOp.status = 200
        /\ lastOp.resp.order_id \in 1..Len(orders)
        /\ orders[lastOp.resp.order_id].total_amount = lastOp.resp.total
        /\ orders[lastOp.resp.order_id].status = "new"
        /\ lastOp.resp.total = lastOp.resp.goods_total + lastOp.resp.delivery_price
        /\ RowsOf(order_items, lastOp.resp.order_id) # {}

C7_Witness ==
    /\ lastOp.op = "confirm"
    /\ lastOp.status = 200
    /\ HasEv(lastOp.events, Ev("commit", TRUE))
    /\ HasEv(lastOp.events, Ev("session_save", FALSE))
    /\ HasEv(lastOp.events, Ev("notify_admin", FALSE))
    /\ HasEv(lastOp.events, Ev("notify_buyer", FALSE))
    /\ Len(orders) = 1

(* C8: in order creation and subscription request every notification comes   *)
(* after the successful ledger write, and none is attempted when that write  *)
(* fails.                                                                    *)
C8_WriteBeforeNotify ==
    (lastOp.op \in {"confirm", "create", "invoice"}) =>
        LET write == IF lastOp.op = "invoice" THEN "insert_subscription" ELSE "commit"
        IN  \A i \in 1..Len(lastOp.events) :
                lastOp.events[i].step \in NotifySteps =>
                    \E j \in 1..(i - 1) : lastOp.events[j] = Ev(write, TRUE)

C8_Witness ==
    /\ lastOp.op = "invoice"
    /\ lastOp.status = 200
    /\ Len(lastOp.events) = 5
    /\ lastOp.events[2] = Ev("insert_subscription", TRUE)
    /\ lastOp.events[4].step = "notify_admin"
    /\ lastOp.events[5].step = "notify_buyer"

InvoiceStep == lastOp = Idle /\ lastOp'.op = "invoice"

InvoiceLedgerEffects ==
    LET tg == lastOp'.req.telegram_id
        phone == lastOp'.req.phone
    IN  /\ lastOp'.status = 200 =>
             /\ ~EmptyId(tg) /\ phone \notin {"", " "}
             /\ Len(users'[tg]) = 1
             /\ users'[tg][1].sub_status = "pending"
             /\ users'[tg][1].phone = phone
             /\ users[tg] # NoUser => users'[tg][1].nickname = users[tg][1].nickname
             /\ \A u \in DOMAIN users : u # tg => users'[u] = users[u]
             /\ Len(subscriptions') = Len(subscriptions) + 1
             /\ SubSeq(subscriptions', 1, Len(subscriptions)) = subscriptions
             /\ subscriptions'[Len(subscriptions')].user_id = tg
             /\ subscriptions'[Len(subscriptions')].status = "pending"
             /\ subscriptions'[Len(subscriptions')].amount = 3000
        /\ (EmptyId(tg) \/ phone \in {"", " "}) =>
             /\ lastOp'.status = 400
             /\ users' = users /\ subscriptions' = subscriptions /\ sessions' = sessions
             /\ orders' = orders /\ order_items' = order_items
             /\ lastOp'.events = <<>>

SessionAwaiting(b) ==
    /\ sessions'[b] # NoSession
    /\ sessions'[b][1].State = "AwaitingPayment"
    /\ sessions'[b][1].IsPaid = FALSE

C10_PendingSubscriptionWins ==
    (/\ lastOp.op = "message"
     /\ lastOp.update.document
     /\ sessions[lastOp.update.from] # NoSession
     /\ sessions[lastOp.update.from][1].State = "AwaitingPayment"
     /\ \E i \in 1..Len(subscriptions) :
            /\ subscriptions[i].user_id = Digits[lastOp.update.from]
            /\ subscriptions[i].status = "pending")
        => /\ lastOp.routed # "order"
           /\ \A i \in 1..Len(lastOp.controls) :
                lastOp.controls[i][1] \in {"sub_ok", "sub_reject"}

Highest(S) == CHOOSE m \in S : \A x \in S : x <= m

PendingOf(tg) ==
    { i \in 1..Len(subscriptions) :
        subscriptions[i].user_id = tg /\ subscriptions[i].status = "pending" }

OrdersOf(tg) == { i \in 1..Len(orders) : orders[i].user_id = tg }

ControlsCarryNewest ==
    (lastOp.op = "message" /\ lastOp.controls # <<>>) =>
        LET tg == Digits[lastOp.update.from]
        IN  IF PendingOf(tg) # {}
            THEN lastOp.controls
                   = << <<"sub_ok", Digits[Highest(PendingOf(tg))], tg>>,
                        <<"sub_reject", Digits[Highest(PendingOf(tg))], tg>> >>
            ELSE /\ lastOp.controls[1][1] = "pay_ok"
                 /\ lastOp.controls[2][1] = "pay_reject"
                 /\ lastOp.controls[1][3] = tg /\ lastOp.controls[2][3] = tg
                 /\ OrdersOf(tg) # {} =>
                      /\ lastOp.controls[1][2] = Digits[Highest(OrdersOf(tg))]
                      /\ lastOp.controls[2][2] = Digits[Highest(OrdersOf(tg))]

(* C11: the controls forwarded with a receipt carry the buyer's id and the   *)
(* highest id among the buyer's pending subscriptions, or, with none         *)
(* pending, the highest id among the buyer's orders; a decision on one       *)
(* subscription leaves every other subscription row as it was.               *)
C11_RoutingBindsNewest ==
    /\ []ControlsCarryNewest
    /\ [][ (lastOp = Idle /\ lastOp'.op = "callback"
              /\ lastOp'.action \in {"sub_ok", "sub_reject"}) =>
             /\ Len(subscriptions') = Len(subscriptions)
             /\ \A i \in 1..Len(subscriptions) :
                  i # lastOp'.mainID => subscriptions'[i] = subscriptions[i] ]_vars

HasStep(evs, step) == \E i \in 1..Len(evs) : evs[i].step = step

IsAwaiting(b) == sessions[b] # NoSession /\ sessions[b][1].State = "AwaitingPayment"

(* C12: a buyer message is forwarded to the admin with controls only if it   *)
(* carries a document and the buyer's session is AwaitingPayment; in every   *)
(* other case nothing is forwarded and the greeting is sent.                 *)
C12_ForwardOnlyAwaitingDocument ==
    (lastOp.op = "message") =>
        LET eligible == lastOp.update.document /\ IsAwaiting(lastOp.update.from)
            forwarded == \/ HasStep(lastOp.events, "forward_admin")
                         \/ lastOp.controls # <<>>
                         \/ lastOp.routed # "none"
        IN  /\ forwarded => eligible
            /\ ~eligible => /\ ~forwarded
                            /\ HasStep(lastOp.events, "greeting")

C12_Witness ==
    /\ lastOp.op = "message"
    /\ lastOp.update.document
    /\ sessions[lastOp.update.from] # NoSession
    /\ sessions[lastOp.update.from][1].State = "Start"
    /\ HasStep(lastOp.events, "greeting")
    /\ lastOp.controls = <<>>

(* C13: in receipt routing a failed forward to the admin makes the handler   *)
(* return an error and the buyer is not told the receipt was forwarded; a    *)
(* forward that succeeds returns success even when the buyer notification    *)
(* fails; either way no ledger row and no session is changed.                *)
C13_ForwardFailureReported ==
    [][ (lastOp = Idle /\ lastOp'.op = "message") =>
          /\ orders' = orders /\ order_items' = order_items
          /\ subscriptions' = subscriptions /\ users' = users
          /\ sessions' = sessions
          /\ HasEv(lastOp'.events, Ev("forward_admin", FALSE)) =>
               /\ lastOp'.failed
               /\ ~HasStep(lastOp'.events, "notify_buyer")
          /\ HasEv(lastOp'.events, Ev("forward_admin", TRUE)) =>
               /\ ~lastOp'.failed
               /\ HasStep(lastOp'.events, "notify_buyer")
      ]_vars

C13_Witness ==
    /\ lastOp.op = "message"
    /\ lastOp.routed = "subscription"
    /\ HasEv(lastOp.events, Ev("forward_admin", TRUE))
    /\ HasEv(lastOp.events, Ev("notify_buyer", FALSE))
    /\ ~lastOp.failed

IsNumber(s) == s = "0" \/ \E d \in 1..Len(Digits) : Digits[d] = s

MalformedToken(data) ==
    \/ Len(data) # 3
    \/ data[1] \notin {"pay_ok", "pay_reject", "sub_ok", "sub_reject"}
    \/ ~IsNumber(data[2])
    \/ ~IsNumber(data[3])

(* C14: a malformed decision token (not exactly three fields, an entity id   *)
(* or buyer id that is no integer, or an unknown verb) is dropped silently:  *)
(* no ledger write, no session write, no admin acknowledgement and no buyer  *)
(* notification.                                                             *)
C14_MalformedTokenDropped ==
    [][ (lastOp = Idle /\ lastOp'.op = "callback" /\ MalformedToken(lastOp'.data)) =>
          /\ orders' = orders /\ order_items' = order_items
          /\ subscriptions' = subscriptions /\ users' = users
          /\ sessions' = sessions
          /\ lastOp'.events = <<>>
      ]_vars

NoStoreFailure(evs) ==
    \A i \in 1..Len(evs) :
        evs[i].step \in {"update_order", "update_subscription", "update_user",
                         "session_get", "session_save"} => evs[i].ok

FreshSession == [State |-> "", BroadCastType |-> "", Contact |-> "", IsPaid |-> FALSE]

(* the buyer's record after the reset: what it was, or a fresh one, at Start and paid *)
SessionReset(before) ==
    << [ (IF before = NoSession THEN FreshSession ELSE before[1])
            EXCEPT !.State = "Start", !.IsPaid = TRUE ] >>

(* C15: a well-formed pay_ok:{orderId}:{buyerId} handled with no store       *)
(* failure sets that order's status to "paid" and leaves the buyer's session *)
(* at Start with isPaid = true, a fresh record being created when there was  *)
(* none; the admin is acknowledged and the buyer is sent a confirmation.     *)
C15_PayOkEffects ==
    [][ (/\ lastOp = Idle /\ lastOp'.op = "callback" /\ lastOp'.action = "pay_ok"
         /\ ~MalformedToken(lastOp'.data)
         /\ NoStoreFailure(lastOp'.events)) =>
          LET id == lastOp'.mainID
              b == lastOp'.userID
          IN  /\ Len(orders') = Len(orders)
              /\ \A i \in 1..Len(orders) :
                    orders'[i] = IF i = id THEN [orders[i] EXCEPT !.status = "paid"]
                                 ELSE orders[i]
              /\ sessions'[b] = SessionReset(sessions[b])
              /\ \A o \in Buyers \ {b} : sessions'[o] = sessions[o]
              /\ HasStep(lastOp'.events, "ack_admin")
              /\ HasStep(lastOp'.events, "notify_buyer")
      ]_vars

C15_Witness ==
    /\ lastOp.op = "callback" /\ lastOp.action = "pay_ok"
    /\ NoStoreFailure(lastOp.events)
    /\ lastOp.mainID = 1 /\ lastOp.userID = 1
    /\ ~lastOp.paid_before
    /\ Len(orders) = 1 /\ orders[1].status = "paid"
    /\ sessions[1] = << [State |-> "Start", BroadCastType |-> "", Contact |-> "",
                         IsPaid |-> TRUE] >>

CountStep(evs, step) == Cardinality({ i \in 1..Len(evs) : evs[i].step = step })

(* a well-formed pay_ok for an order that exists has just been handled *)
PayOkDelivered ==
    /\ lastOp = Idle /\ lastOp'.op = "callback" /\ lastOp'.action = "pay_ok"
    /\ ~MalformedToken(lastOp'.data)
    /\ lastOp'.mainID \in 1..Len(orders)
    /\ lastOp'.userID \in Buyers

SessionStartPaid(b) ==
    /\ sessions'[b] # NoSession
    /\ sessions'[b][1].State = "Start"
    /\ sessions'[b][1].IsPaid = TRUE

C17_PayRejectWritesNothing ==
    [][ (/\ lastOp = Idle /\ lastOp'.op = "callback"
         /\ Len(lastOp'.data) = 3 /\ lastOp'.data[1] = "pay_reject") =>
          /\ orders' = orders /\ order_items' = order_items
          /\ subscriptions' = subscriptions /\ users' = users
          /\ sessions' = sessions
          /\ HasStep(lastOp'.events, "ack_admin")
          /\ \A i \in 1..Len(lastOp'.events) :
                lastOp'.events[i].step \in {"ack_admin", "notify_buyer"}
      ]_vars

C17_Witness ==
    /\ lastOp.op = "callback"
    /\ lastOp.data = <<"pay_reject", "1", "1">>
    /\ Len(orders) = 1 /\ orders[1].status = "new"
    /\ IsAwaiting(1)
    /\ CountStep(lastOp.events, "ack_admin") = 1
    /\ CountStep(lastOp.events, "notify_buyer") = 1

(* C18: after an admin decision for a buyer (pay_ok, sub_ok, pay_reject or   *)
(* sub_reject) has been handled with no store failure, that buyer's session  *)
(* state is Start.                                                           *)
C18_DecisionResetsSession ==
    [][ (/\ lastOp = Idle /\ lastOp'.op = "callback"
         /\ ~MalformedToken(lastOp'.data)
         /\ lastOp'.mainID > 0
         /\ lastOp'.userID \in Buyers
         /\ NoStoreFailure(lastOp'.events)) =>
          /\ sessions'[lastOp'.userID] # NoSession
          /\ sessions'[lastOp'.userID][1].State = "Start"
      ]_vars

(* C19: a well-formed sub_ok:{subId}:{buyerId} handled with no store failure *)
(* leaves the subscription row subId "active" with a validUntil, the user    *)
(* row of buyerId "active" with subUntil equal to that same validUntil, and  *)
(* the buyer's session at Start with isPaid = true.                          *)
C19_SubOkEffects ==
    [][ (/\ lastOp = Idle /\ lastOp'.op = "callback" /\ lastOp'.action = "sub_ok"
         /\ ~MalformedToken(lastOp'.data)
         /\ lastOp'.mainID > 0
         /\ lastOp'.userID \in Buyers
         /\ NoStoreFailure(lastOp'.events)) =>
          LET id == lastOp'.mainID
              b == lastOp'.userID
              tg == FormatInt(b)
          IN  /\ id \in 1..Len(subscriptions) =>
                    /\ subscriptions'[id].status = "active"
                    /\ subscriptions'[id].valid_until.Valid
              /\ users[tg] # NoUser =>
                    /\ users'[tg][1].sub_status = "active"
                    /\ users'[tg][1].sub_until.Valid
                    /\ id \in 1..Len(subscriptions) =>
                          users'[tg][1].sub_until = subscriptions'[id].valid_until
              /\ sessions'[b] = SessionReset(sessions[b])
      ]_vars

C19_Witness ==
    /\ lastOp.op = "callback" /\ lastOp.action = "sub_ok"
    /\ NoStoreFailure(lastOp.events)
    /\ lastOp.mainID \in 1..Len(subscriptions)
    /\ subscriptions[lastOp.mainID].status = "active"
    /\ subscriptions[lastOp.mainID].user_id = FormatInt(lastOp.userID)
    /\ users[FormatInt(lastOp.userID)] # NoUser
    /\ users[FormatInt(lastOp.userID)][1].sub_status = "active"
    /\ users[FormatInt(lastOp.userID)][1].sub_until = subscriptions[lastOp.mainID].valid_until
    /\ sessions[lastOp.userID] # NoSession
    /\ sessions[lastOp.userID][1].State = "Start"
    /\ sessions[lastOp.userID][1].IsPaid

(* a date of the calendar *)
IsCalendarDate(t) == t.m \in 1..12 /\ t.d \in 1..DaysIn(t.y, t.m)

(* the month after month m of year y *)
MonthAfter(y, m) == IF m = 12 THEN [y |-> y + 1, m |-> 1] ELSE [y |-> y, m |-> m + 1]

(* one calendar month after t: the same day of the next month, and when that  *)
(* month is too short for the day, the days beyond its end counted into the   *)
(* month that follows it                                                      *)
OneMonthAfter(t) ==
    LET n == MonthAfter(t.y, t.m)
        nn == MonthAfter(n.y, n.m)
    IN  IF t.d <= DaysIn(n.y, n.m)
        THEN [y |-> n.y, m |-> n.m, d |-> t.d]
        ELSE [y |-> nn.y, m |-> nn.m, d |-> t.d - DaysIn(n.y, n.m)]

(* C20: the validUntil that sub_ok writes is one calendar month after the     *)
(* decision date, for every decision date: the same day of the next month,    *)
(* or, at a month end the next month does not have (Jan 29-31, Mar 31, ...),  *)
(* in a leap year or not, the calendar-arithmetic result that rolls the       *)
(* excess days over; it is always a date of the calendar and the handler      *)
(* always completes.                                                          *)
C20_ValidUntilOneMonthLater ==
    [][ (/\ lastOp = Idle /\ lastOp'.op = "callback" /\ lastOp'.action = "sub_ok"
         /\ lastOp'.mainID \in 1..Len(subscriptions)
         /\ lastOp'.userID # 0
         /\ \E i \in 1..Len(lastOp'.events) :
               lastOp'.events[i] = [step |-> "update_subscription", ok |-> TRUE]) =>
          LET until == subscriptions'[lastOp'.mainID].valid_until
          IN  /\ until.Valid
              /\ until.Time = OneMonthAfter(now)
              /\ IsCalendarDate(until.Time)
              /\ HasStep(lastOp'.events, "ack_admin")
      ]_vars

(* a decision on 31 January of a leap year: validUntil is 2 March *)
C20_Witness ==
    /\ lastOp.op = "callback" /\ lastOp.action = "sub_ok"
    /\ now = [y |-> 2024, m |-> 1, d |-> 31]
    /\ lastOp.mainID \in 1..Len(subscriptions)
    /\ subscriptions[lastOp.mainID].status = "active"
    /\ subscriptions[lastOp.mainID].valid_until = [Valid |-> TRUE, Time |-> [y |-> 2024, m |-> 3, d |-> 2]]

(* a well-formed sub_reject:{subId}:{buyerId} has just been handled *)
SubRejectStep ==
    /\ lastOp = Idle /\ lastOp'.op = "callback" /\ lastOp'.action = "sub_reject"
    /\ ~MalformedToken(lastOp'.data)
    /\ lastOp'.mainID \in 1..Len(subscriptions)

(* nothing but the status of subscription row id may differ *)
OnlySubStatusOf(id) ==
    /\ users' = users
    /\ orders' = orders
    /\ order_items' = order_items
    /\ Len(subscriptions') = Len(subscriptions)
    /\ \A i \in 1..Len(subscriptions) :
          IF i = id THEN subscriptions'[i] = [subscriptions[i] EXCEPT !.status = subscriptions'[i].status]
          ELSE subscriptions'[i] = subscriptions[i]

IsPaidSession(store, b) == store[b] # NoSession /\ store[b][1].IsPaid

(* C22: a session has isPaid = true only if an approval (pay_ok or sub_ok)   *)
(* for that buyer was handled after the buyer's latest order creation or     *)
(* subscription request: a step that makes isPaid true is such an approval,  *)
(* and right after an accepted order creation or subscription request the    *)
(* buyer's session does not have isPaid = true.                              *)
C22_PaidOnlyAfterApproval ==
    [][ /\ \A b \in Buyers :
              (~IsPaidSession(sessions, b) /\ IsPaidSession(sessions', b)) =>
                  /\ lastOp'.op = "callback"
                  /\ lastOp'.action \in {"pay_ok", "sub_ok"}
                  /\ lastOp'.userID = b
        /\ (/\ lastOp = Idle /\ lastOp'.op \in {"confirm", "create", "invoice"}
            /\ lastOp'.status = 200) =>
              ~IsPaidSession(sessions', BuyerOf(lastOp'.req.telegram_id))
      ]_vars

StepOk(evs, step) == HasEv(evs, [step |-> step, ok |-> TRUE])

(* C23: the sub-steps of pay_ok are independent. Whatever fails, the session *)
(* read and write, the admin acknowledgement and the buyer notification are  *)
(* each attempted once; when the order update succeeds the order is "paid"   *)
(* even if the session read or write fails; when the order update fails the  *)
(* order is unchanged and the session is still reset if its own calls work.  *)
C23_PayOkStepsIndependent ==
    [][ (/\ lastOp = Idle /\ lastOp'.op = "callback" /\ lastOp'.action = "pay_ok"
         /\ ~MalformedToken(lastOp'.data)
         /\ lastOp'.mainID \in 1..Len(orders)
         /\ lastOp'.userID \in Buyers) =>
          LET id == lastOp'.mainID
              b == lastOp'.userID
              evs == lastOp'.events
          IN  /\ \A step \in {"update_order", "session_get", "session_save",
                              "ack_admin", "notify_buyer"} : CountStep(evs, step) = 1
              /\ orders' = IF StepOk(evs, "update_order")
                           THEN [orders EXCEPT ![id].status = "paid"]
                           ELSE orders
              /\ StepOk(evs, "session_save") =>
                    sessions'[b] = SessionReset(IF StepOk(evs, "session_get") THEN sessions[b]
                                                ELSE NoSession)
              /\ ~StepOk(evs, "session_save") => sessions' = sessions
      ]_vars

(* the session write failed, the order is paid all the same, the admin and the buyer were told *)
C23_Witness ==
    /\ lastOp.op = "callback" /\ lastOp.action = "pay_ok"
    /\ HasEv(lastOp.events, [step |-> "session_save", ok |-> FALSE])
    /\ StepOk(lastOp.events, "update_order")
    /\ HasStep(lastOp.events, "ack_admin") /\ HasStep(lastOp.events, "notify_buyer")
    /\ lastOp.mainID \in 1..Len(orders)
    /\ orders[lastOp.mainID].status = "paid"
    /\ IsAwaiting(lastOp.userID)

(* a decision on an existing subscription of the buyer it names, no store write failing *)
SubDecisionStep(verb) ==
    /\ lastOp = Idle /\ lastOp'.op = "callback" /\ lastOp'.action = verb
    /\ ~MalformedToken(lastOp'.data)
    /\ lastOp'.mainID \in 1..Len(subscriptions)
    /\ lastOp'.userID \in Buyers
    /\ subscriptions[lastOp'.mainID].user_id = FormatInt(lastOp'.userID)
    /\ NoStoreFailure(lastOp'.events)

(* an accepted subscription request: both of its ledger writes succeeded *)
SubRequestStep == lastOp = Idle /\ lastOp'.op = "invoice" /\ lastOp'.status = 200

(* the user's subStatus equals the status of the row just written *)
MirrorsRow(tg, id) == users'[tg] # NoUser /\ users'[tg][1].sub_status = subscriptions'[id].status

(* C24 as stated: with no store write failing, after every subscription      *)
(* transition (request, sub_ok, sub_reject) User.subStatus equals the status *)
(* of the buyer's subscription row that has just made the transition.        *)
C24_AsStated ==
    [][ /\ SubRequestStep =>
              MirrorsRow(TrimSpace(lastOp'.req.telegram_id), Len(subscriptions'))
        /\ \A verb \in {"sub_ok", "sub_reject"} :
              SubDecisionStep(verb) => MirrorsRow(FormatInt(lastOp'.userID), lastOp'.mainID)
      ]_vars

(* C24: with no store write failing, after a subscription request and after  *)
(* sub_ok User.subStatus equals the status of the buyer's subscription row   *)
(* that has just made the transition ("pending", "active"); sub_reject       *)
(* leaves the user row as it was, so it does not follow the row to           *)
(* "rejected".                                                               *)
C24_MirrorOnRequestAndApproval ==
    [][ /\ SubRequestStep =>
              /\ MirrorsRow(TrimSpace(lastOp'.req.telegram_id), Len(subscriptions'))
              /\ subscriptions'[Len(subscriptions')].status = "pending"
        /\ SubDecisionStep("sub_ok") =>
              /\ MirrorsRow(FormatInt(lastOp'.userID), lastOp'.mainID)
              /\ subscriptions'[lastOp'.mainID].status = "active"
        /\ SubDecisionStep("sub_reject") =>
              /\ users' = users
              /\ subscriptions'[lastOp'.mainID].status = "rejected"
      ]_vars

(* an older subscription of the buyer was approved while a newer one is pending *)
C24_Witness ==
    /\ lastOp.op = "callback" /\ lastOp.action = "sub_ok"
    /\ NoStoreFailure(lastOp.events)
    /\ Len(subscriptions) = 2 /\ lastOp.mainID = 1
    /\ subscriptions[1].status = "active" /\ subscriptions[2].status = "pending"
    /\ subscriptions[1].user_id = "2"
    /\ users["2"][1].sub_status = "active"

LedgerUnchanged ==
    /\ orders' = orders /\ order_items' = order_items
    /\ subscriptions' = subscriptions /\ users' = users

(* the rows an order creation has written, told from its request and answer alone *)
OrderWritesOf(o) ==
    IF o.status = 200
    THEN /\ orders' = Append(orders, [user_id |-> TrimSpace(o.req.telegram_id),
                                      total_amount |-> o.resp.total, status |-> "new"])
         /\ Len(order_items') = Len(order_items) + NItems(o.req)
         /\ \A i \in 1..Len(order_items') :
               IF i <= Len(order_items) THEN order_items'[i] = order_items[i]
               ELSE order_items'[i].order_id = o.resp.order_id
         /\ subscriptions' = subscriptions /\ users' = users
    ELSE LedgerUnchanged

(* the rows a subscription request has written, told from its request and log alone *)
InvoiceWritesOf(o) ==
    LET tg == TrimSpace(o.req.telegram_id)
        phone == TrimSpace(o.req.phone)
    IN  /\ orders' = orders /\ order_items' = order_items
        /\ users' = IF StepOk(o.events, "upsert_user")
                    THEN UpsertUserPending(users, tg, phone) ELSE users
        /\ subscriptions' = IF StepOk(o.events, "insert_subscription")
                            THEN Append(subscriptions, SubRow(tg, phone)) ELSE subscriptions

(* the rows an admin decision has written, told from its token and log alone *)
DecisionWritesOf(o) ==
    LET id == o.mainID
        tg == FormatInt(o.userID)
        until == [Valid |-> TRUE, Time |-> OneMonthAfter(now)]
        hitOrder == StepOk(o.events, "update_order") /\ id \in 1..Len(orders)
        hitSub == StepOk(o.events, "update_subscription") /\ id \in 1..Len(subscriptions)
        hitUser == StepOk(o.events, "update_user") /\ tg \in DOMAIN users /\ users[tg] # NoUser
    IN  /\ order_items' = order_items
        /\ orders' = IF o.action = "pay_ok" /\ hitOrder
                     THEN [orders EXCEPT ![id].status = "paid"] ELSE orders
        /\ subscriptions' =
              IF o.action = "sub_ok" /\ hitSub
              THEN [subscriptions EXCEPT ![id].status = "active", ![id].valid_until = until]
              ELSE IF o.action = "sub_reject" /\ hitSub
              THEN [subscriptions EXCEPT ![id].status = "rejected"]
              ELSE subscriptions
        /\ users' = IF o.action = "sub_ok" /\ hitUser
                    THEN [users EXCEPT ![tg] = << [users[tg][1] EXCEPT !.sub_status = "active",
                                                                     !.sub_until = until] >>]
                    ELSE users

(* C25: losing a buyer's session changes no ledger row, and the ledger       *)
(* writes of every order creation, subscription request and admin decision   *)
(* are a function of the request or token, the ledger and the outcome of the *)
(* ledger statements alone, the same with the session present or lost; what  *)
(* the loss changes is that the buyer's document is not forwarded.           *)
C25_SessionLossLeavesLedger ==
    [][ lastOp = Idle =>
          CASE lastOp'.op = "evict" ->
                  /\ LedgerUnchanged
                  /\ sessions'[lastOp'.buyer] = NoSession
                  /\ \A b \in Buyers \ {lastOp'.buyer} : sessions'[b] = sessions[b]
            [] lastOp'.op \in {"confirm", "create"} -> OrderWritesOf(lastOp')
            [] lastOp'.op = "invoice" -> InvoiceWritesOf(lastOp')
            [] lastOp'.op = "callback" -> DecisionWritesOf(lastOp')
            [] lastOp'.op = "message" ->
                  /\ LedgerUnchanged
                  /\ sessions[lastOp'.update.from] = NoSession =>
                        /\ lastOp'.routed = "none"
                        /\ ~HasStep(lastOp'.events, "forward_admin")
                        /\ HasStep(lastOp'.events, "greeting")
            [] OTHER -> TRUE
      ]_vars

(* the session of a buyer with an order and a pending subscription has just   *)
(* been lost                                                                  *)
C25_Witness ==
    /\ lastOp.op = "evict"
    /\ sessions[lastOp.buyer] = NoSession
    /\ Len(orders) = 1 /\ orders[1].user_id = FormatInt(lastOp.buyer)
    /\ \E i \in 1..Len(subscriptions) :
          subscriptions[i].user_id = FormatInt(lastOp.buyer) /\ subscriptions[i].status = "pending"

(* a date as one number, for comparison *)
Stamp(t) == t.y * 10000 + t.m * 100 + t.d

(* active, and its date in the past *)
ActivePast(status, until) == status = "active" /\ until.Valid /\ Stamp(until.Time) < Stamp(now)

(* a sweeper tick has just run *)
SweepStep == (lastOp = Idle \/ lastOp.op = "sweep") /\ lastOp'.op = "sweep"

(* C26: on a sweeper tick each of the two bulk updates is attempted, whatever *)
(* the other did. The subscription update, unless it fails, turns every      *)
(* active subscription whose validUntil is in the past to "expired"; the     *)
(* user update, unless it fails, turns every active user whose subUntil is   *)
(* in the past to "expired" with subUntil = null. Every other row, every     *)
(* order and every session stays as it was.                                  *)
C26_SweepExpiresLapsed ==
    [][ SweepStep =>
          /\ CountStep(lastOp'.events, "expire_subscriptions") = 1
          /\ CountStep(lastOp'.events, "expire_users") = 1
          /\ Len(subscriptions') = Len(subscriptions)
          /\ \A i \in 1..Len(subscriptions) :
                subscriptions'[i] =
                   IF /\ StepOk(lastOp'.events, "expire_subscriptions")
                      /\ ActivePast(subscriptions[i].status, subscriptions[i].valid_until)
                   THEN [subscriptions[i] EXCEPT !.status = "expired"]
                   ELSE subscriptions[i]
          /\ \A tg \in DOMAIN users :
                users'[tg] =
                   IF /\ StepOk(lastOp'.events, "expire_users")
                      /\ users[tg] # NoUser
                      /\ ActivePast(users[tg][1].sub_status, users[tg][1].sub_until)
                   THEN << [users[tg][1] EXCEPT !.sub_status = "expired",
                                                !.sub_until = [Valid |-> FALSE, Time |-> ZeroDate]] >>
                   ELSE users[tg]
          /\ sessions' = sessions
          /\ orders' = orders /\ order_items' = order_items
      ]_vars

(* the subscription update failed and the user update still expired the user *)
C26_Witness ==
    /\ lastOp.op = "sweep"
    /\ HasEv(lastOp.events, [step |-> "expire_subscriptions", ok |-> FALSE])
    /\ StepOk(lastOp.events, "expire_users")
    /\ \E i \in 1..Len(subscriptions) :
          ActivePast(subscriptions[i].status, subscriptions[i].valid_until)
    /\ \E i \in 1..Len(subscriptions) :
          subscriptions[i].status = "active" /\ ~ActivePast("active", subscriptions[i].valid_until)
    /\ users["2"][1].sub_status = "expired" /\ ~users["2"][1].sub_until.Valid
    /\ sessions[2] # NoSession

(* a tick that directly follows a tick: no handler ran and the clock did not move *)
SecondSweepStep == lastOp.op = "sweep" /\ lastOp'.op = "sweep"

(* both bulk updates of the tick went through *)
SweepComplete(o) == StepOk(o.events, "expire_subscriptions") /\ StepOk(o.events, "expire_users")

TickTaken == lastOp' # lastOp /\ lastOp'.op = "sweep"

HandlerInFlight == proc.inflight \in {"committed", "saved"}

(* C29: after the shutdown signal the bot takes no new update and, once the  *)
(* server is shut down, no new request is accepted; a handler in flight is   *)
(* not cut off: the process does not end while an order-creation handler     *)
(* that committed its ledger write before the signal has still to make its   *)
(* session write and its notification attempts.                              *)
C29_InFlightHandlerCompletes ==
    /\ [][ /\ (proc.ctxDone /\ lastOp = Idle) => lastOp'.op # "callback"
           /\ (proc.closed /\ lastOp = Idle) => lastOp'.op # "confirm"
         ]_vars
    /\ [](proc.exited /\ HandlerInFlight => ~lastOp.before_signal)

(* a well-formed token with that verb has just been handled *)
DecisionStep(verb) ==
    /\ lastOp = Idle /\ lastOp'.op = "callback" /\ lastOp'.action = verb
    /\ ~MalformedToken(lastOp'.data)
    /\ lastOp'.mainID > 0 /\ lastOp'.userID \in Buyers

(* the status the row has after a decision whose update did or did not go through *)
Decided(tbl, step, target) ==
    IF StepOk(lastOp'.events, step) THEN target ELSE tbl[lastOp'.mainID].status

WorkerSaves(i) ==
    /\ proc.cb[i].todo # <<>>
    /\ Head(proc.cb[i].todo) = "session_save"
    /\ proc'.cb[i].todo = Tail(proc.cb[i].todo)

(* the record worker i writes: the one it read, reset to Start and paid *)
WorkerRecord(i) ==
    LET held == IF proc.cb[i].state = NoSession
                THEN [State |-> "", BroadCastType |-> "", Contact |-> "", IsPaid |-> FALSE]
                ELSE proc.cb[i].state[1]
    IN  [held EXCEPT !.State = "Start", !.IsPaid = TRUE]

WorkerBuyer(i) == ParseInt(proc.cb[i].data[3]).val

(* the order creation makes its session write in this step *)
CreationSaves ==
    \/ proc.inflight = "committed" /\ proc'.inflight = "saved"
    \/ lastOp = Idle /\ lastOp'.op = "confirm" /\ proc' = proc
         /\ HasStep(lastOp'.events, "session_save")

(* the record an order creation writes for its request *)
CreationRecord(req) ==
    [State |-> "AwaitingPayment",
     BroadCastType |-> IF TrimSpace(req.payment_method) = "" THEN "kaspi_link"
                       ELSE TrimSpace(req.payment_method),
     Contact |-> req.delivery.Phone, IsPaid |-> FALSE]

(* every successful save replaces the buyer's record, and nothing else changes a session *)
LastWriteWins ==
    /\ \A i \in CallbackSlots :
          WorkerSaves(i) /\ StepOk(proc'.cb[i].events, "session_save")
            => sessions'[WorkerBuyer(i)] = <<WorkerRecord(i)>>
    /\ CreationSaves /\ StepOk(lastOp'.events, "session_save")
         => sessions'[ParseInt(TrimSpace(lastOp'.req.telegram_id)).val]
              = <<CreationRecord(lastOp'.req)>>
    /\ sessions' # sessions => CreationSaves \/ \E i \in CallbackSlots : WorkerSaves(i)

(* the pay_ok worker has returned and no order creation is under way *)
RaceOver == proc.cb[1] # NoCall /\ proc.cb[1].done /\ proc.inflight = "none"

(* the order creation committed after the worker took the update *)
CreatedInRace ==
    /\ lastOp.op = "confirm" /\ lastOp.status = 200
    /\ lastOp.resp.order_id > Len(proc.base.orders)

(* the whole order creation, run on ledger db *)
CreationOn(db) ==
    LET req == lastOp.req
        isDelivery == EqualFold(req.delivery.Type, "delivery")
        items == IF isDelivery THEN Append(req.items, DeliveryItem) ELSE req.items
        total == GoodsTotal(req.items) + (IF isDelivery THEN DeliveryFlatRate ELSE 0)
    IN  IF CreatedInRace
        THEN OrderTx(db, TrimSpace(req.telegram_id), total, items, [at |-> "none", k |-> 1]).db
        ELSE db

(* the whole pay_ok of worker 1, run on ledger db *)
ApprovalOn(db) ==
    LET c == proc.cb[1]
    IN  [db EXCEPT !.orders = SetOrderPaid(db.orders, ParseInt(c.data[2]).val,
                                           StepOk(c.events, "update_order"))]

SerialLedgers == { CreationOn(ApprovalOn(proc.base)), ApprovalOn(CreationOn(proc.base)) }

(* C31: for every interleaving of an admin pay_ok with an order creation or  *)
(* a receipt submission of the same buyer, the ledger rows at the end are    *)
(* those of a serial order of the same handlers, the users and subscriptions *)
(* are untouched, and a session changes only by a handler's save replacing   *)
(* the record, so the final session is the record of whoever saved last.     *)
C31_LastWriteWins ==
    /\ [](RaceOver => Ledger(orders, order_items) \in SerialLedgers)
    /\ [][LastWriteWins /\ subscriptions' = subscriptions /\ users' = users]_vars

(* the creation committed and saved between the worker's session read and write *)
C31_Witness ==
    /\ RaceOver /\ CreatedInRace
    /\ proc.cb[1].stale /\ proc.cb[1].seen # NoSession
    /\ StepOk(proc.cb[1].events, "update_order") /\ StepOk(proc.cb[1].events, "session_save")
    /\ Len(orders) = 2 /\ orders[1].status = "paid" /\ orders[2].status = "new"
    /\ sessions[1] # NoSession /\ sessions[1][1].State = "Start"

(* ---- C32 ---- *)
(* C32: when an order creation of the same buyer saves AwaitingPayment       *)
(* between the session read and the session write of a pay_ok for an earlier *)
(* order, and both saves succeed, then once both handlers have finished the  *)
(* buyer's session is AwaitingPayment and not paid, for the new unpaid order.*)
C32_NoLostUpdate ==
    RaceOver /\ CreatedInRace
      /\ ParseInt(proc.cb[1].data[2]).val # lastOp.resp.order_id
      /\ ParseInt(TrimSpace(lastOp.req.telegram_id)).val = ParseInt(proc.cb[1].data[3]).val
      /\ proc.cb[1].stale
      /\ StepOk(proc.cb[1].events, "session_get") /\ StepOk(proc.cb[1].events, "session_save")
      /\ StepOk(lastOp.events, "session_save")
      /\ orders[lastOp.resp.order_id].status = "new"
    => LET b == ParseInt(proc.cb[1].data[3]).val
       IN  /\ sessions[b] # NoSession
           /\ sessions[b][1].State = "AwaitingPayment"
           /\ ~sessions[b][1].IsPaid

(* ---- C33 ---- *)
(* both workers have handled sub_ok for subscription id of buyer tg, every write succeeded *)
BothApproved(id, tg) ==
    /\ \A i \in CallbackSlots :
          /\ proc.cb[i].done
          /\ proc.cb[i].data = <<"sub_ok", FormatInt(id), tg>>
          /\ NoStoreFailure(proc.cb[i].events)
          /\ StepOk(proc.cb[i].events, "update_subscription")
          /\ StepOk(proc.cb[i].events, "update_user")
    /\ id \in 1..Len(subscriptions) /\ subscriptions[id].user_id = tg
    /\ users[tg] # NoUser

(* C33: for every interleaving of two sub_ok handlers for the same           *)
(* subscription and buyer, each with the validUntil it computed, once both   *)
(* have finished with no write failure the User's subUntil equals the        *)
(* Subscription's validUntil.                                                *)
C33_ConcurrentApprovalsAgree ==
    \A id \in 1..MaxSubs : \A tg \in {"1", "2"} :
        BothApproved(id, tg) => users[tg][1].sub_until = subscriptions[id].valid_until

(* ---- C34 ---- *)
(* the row a control names exists and belongs to buyer tg *)
ControlNamesRowOf(c, tg) ==
    LET id == ParseInt(c[2]).val
    IN  IF c[1] \in {"pay_ok", "pay_reject"}
        THEN id \in 1..Len(orders) /\ orders[id].user_id = tg
        ELSE id \in 1..Len(subscriptions) /\ subscriptions[id].user_id = tg

(* C34: the approve / reject controls attached to a forwarded document carry *)
(* the id of an existing order or subscription row of the submitting buyer,  *)
(* never 0 and never the id of a row that does not exist (every query of the *)
(* routing having succeeded).                                                *)
C34_ControlsNameExistingRow ==
    lastOp.op = "message" /\ lastOp.routed # "none"
      /\ (\A i \in 1..Len(lastOp.events) : lastOp.events[i].step \in
             {"session_get", "select_subscription", "select_order"} => lastOp.events[i].ok)
    => \A i \in 1..Len(lastOp.controls) :
          /\ ParseInt(lastOp.controls[i][2]).val # 0
          /\ ControlNamesRowOf(lastOp.controls[i], FormatInt(lastOp.update.from))

(* ---- C35 ---- *)
(* buyer tg has a Subscription row that is active and valid beyond now *)
HasLiveSubscription(tg) ==
    \E i \in 1..Len(subscriptions) :
        /\ subscriptions[i].user_id = tg
        /\ subscriptions[i].status = "active"
        /\ subscriptions[i].valid_until.Valid
        /\ Before(now, subscriptions[i].valid_until.Time)

(* every Subscription row of buyer tg is rejected, one of them after an approval *)
ApprovedThenRejected(tg) ==
    /\ \A i \in 1..Len(subscriptions) :
          subscriptions[i].user_id = tg => subscriptions[i].status = "rejected"
    /\ \E i \in 1..Len(subscriptions) :
          subscriptions[i].user_id = tg /\ subscriptions[i].valid_until.Valid

(* C35: the subscription-status query reports a buyer active only if the     *)
(* buyer has a Subscription row with status "active" and validUntil in the   *)
(* future; checked in the case the claim names, a buyer whose subscription   *)
(* was approved by sub_ok and then rejected by sub_reject.                   *)
C35_ActiveOnlyWithLiveSubscription ==
    lastOp.op = "sub_status" /\ lastOp.status = 200 /\ lastOp.active
      /\ ApprovedThenRejected(TrimSpace(lastOp.telegram_id))
      => HasLiveSubscription(TrimSpace(lastOp.telegram_id))

(* ---- C36 ---- *)
(* C36: a subscription request that answers an error leaves the ledger as it *)
(* was: the User row is not set to "pending" when the Subscription insert    *)
(* fails after the upsert, and the session and the notifications are         *)
(* untouched.                                                                *)
C36_FailedRequestWritesNothing ==
    [][InvoiceStep /\ lastOp'.status >= 400
         => /\ users' = users /\ subscriptions' = subscriptions
            /\ orders' = orders /\ order_items' = order_items
            /\ sessions' = sessions
            /\ ~HasStep(lastOp'.events, "session_save")
            /\ ~HasStep(lastOp'.events, "notify_admin")
            /\ ~HasStep(lastOp'.events, "notify_buyer")]_vars

(* ---- C37 ---- *)
(* the step is the handling of a pay_ok that names order id *)
PayOkOn(id) ==
    lastOp = Idle /\ lastOp'.op = "callback" /\ lastOp'.action = "pay_ok" /\ lastOp'.mainID = id

OrderStatusStep ==
    /\ Len(orders') >= Len(orders)
    /\ \A id \in 1..Len(orders') :
          IF id > Len(orders)
          THEN orders'[id].status = "new"
          ELSE /\ orders[id].status = "paid" => orders'[id].status = "paid"
               /\ orders'[id].status # orders[id].status
                    => orders[id].status = "new" /\ orders'[id].status = "paid" /\ PayOkOn(id)

ApprovalStep ==
    /\ lastOp = Idle /\ lastOp'.op = "callback"
    /\ lastOp'.action \in {"pay_ok", "sub_ok"}
    /\ HasStep(lastOp'.events, "session_save")

ApprovalBuyer == lastOp'.userID

C39_ReceiptTotalMatches ==
    IsOrderOp(lastOp) /\ lastOp.status = 200
      => /\ lastOp.resp.order_id \in 1..Len(orders)
         /\ lastOp.receipt_total = orders[lastOp.resp.order_id].total_amount
         /\ lastOp.receipt_total = lastOp.resp.total

(* a delivered order of two lines, one of them truncated, and its receipt sent *)
C39_Witness ==
    /\ lastOp.op = "confirm" /\ lastOp.status = 200
    /\ WantsDelivery(lastOp)
    /\ Len(lastOp.req.items) = 2
    /\ StepOk(lastOp.events, "notify_buyer")
    /\ lastOp.receipt_total = 1005
    /\ orders[lastOp.resp.order_id].total_amount = 1005

====
